---------------------------- MODULE Spec2Model ----------------------------
(***************************************************************************)
(* Model of the catalight photoreactor controller:                         *)
(*   - Gas_System (photoreactor/equipment/alicat_MFC/gas_control.py): the  *)
(*     bank of four flow controllers A-D plus the flow meter E, guarded by *)
(*     the is_busy flag;                                                   *)
(*   - MainWindow.update_expt / update_ind_var (catalight/catalight_GUI.py)*)
(*     the composition-sweep planner.                                      *)
(***************************************************************************)
EXTENDS Integers, Sequences, FiniteSets, TLC

(***************************************************************************)
(* Python floats.  A float of the model is a non-negative IEEE-754 binary64*)
(* value that is a multiple of 2^-60, kept exactly as three limbs          *)
(* <<h, m, l>> of value (h * 2^48 + m * 2^24 + l) * 2^-60.  Every value    *)
(* the modelled code computes (integers up to a few hundred, k/100 for an  *)
(* integer k >= 1, their sums and small integer multiples) is such a       *)
(* number, and every operation below rounds to 53 significant bits, ties   *)
(* to even, as the hardware does.                                          *)
(***************************************************************************)
LimbBits == 24 + 0
LimbBase == 2^LimbBits
MantBits == 53 + 0

RECURSIVE BitLen(_)
BitLen(n) == IF n = 0 THEN 0 ELSE 1 + BitLen(n \div 2)

FxBitLen(x) ==
    IF x[1] > 0 THEN 2 * LimbBits + BitLen(x[1])
    ELSE IF x[2] > 0 THEN LimbBits + BitLen(x[2])
    ELSE BitLen(x[3])

\* carry-normalise: the two low limbs below LimbBase
FxNorm(h, m, l) ==
    LET m1 == m + (l \div LimbBase)
    IN  <<h + (m1 \div LimbBase), m1 % LimbBase, l % LimbBase>>

FxAdd(x, y) == FxNorm(x[1] + y[1], x[2] + y[2], x[3] + y[3])

\* round x to MantBits significant bits, ties to even; sticky says that
\* non-zero bits were already dropped below the last limb
Round53(x, sticky) ==
    LET n == FxBitLen(x)
        d == n - MantBits
    IN  IF d <= 0 THEN x
        ELSE LET unit == 2^d
                 half == 2^(d - 1)
                 low  == x[3] % unit
                 odd  == (x[3] \div unit) % 2 = 1
                 up   == \/ low > half
                         \/ low = half /\ sticky
                         \/ low = half /\ ~sticky /\ odd
             IN  FxNorm(x[1], x[2], (x[3] - low) + (IF up THEN unit ELSE 0))

FxZero == <<0, 0, 0>>
FromInt(n) == <<n * 2^12, 0, 0>>
FOne == FromInt(1)
FHundred == FromInt(100)

\* x + y of two Python floats
FAdd(x, y) == Round53(FxAdd(x, y), FALSE)

\* x / 100: long division of the limbs by 100, then the correctly rounded
\* quotient (defined for x = 0 and for quotients of at least 2^-8)
FDiv100(x) ==
    LET qh == x[1] \div 100
        c1 == (x[1] % 100) * LimbBase + x[2]
        qm == c1 \div 100
        c2 == (c1 % 100) * LimbBase + x[3]
        ql == c2 \div 100
        r  == c2 % 100
        q  == <<qh, qm, ql>>
        n  == FxBitLen(q)
    IN  IF n > MantBits THEN Round53(q, r # 0)
        ELSE IF 2 * r > 100 \/ (2 * r = 100 /\ ql % 2 = 1)
             THEN FxNorm(qh, qm, ql + 1)
             ELSE q

\* x * k for a small non-negative integer k (k < 128): the exact product,
\* rounded
FMulInt(x, k) == Round53(FxNorm(x[1] * k, x[2] * k, x[3] * k), FALSE)

\* the float written k/100 in decimal (0.25 is FromHundredths(25)): the
\* double nearest to k/100, which is also what k / 100 evaluates to
FromHundredths(k) == FDiv100(FromInt(k))

\* Python's sum(list): 0 + x1 + x2 + ... left to right
RECURSIVE SumTo(_, _)
SumTo(s, n) == IF n = 0 THEN FxZero ELSE FAdd(SumTo(s, n - 1), s[n])
PySum(s) == SumTo(s, Len(s))

(***************************************************************************)
(* Gas_System.check_comp_total.  The result records whether the           *)
(* AttributeError is raised and the list as the call leaves it (the       *)
(* rescaling is done in place, comp_list[:] = ...).                       *)
(***************************************************************************)
Rescale(comp_list) ==
    IF PySum(comp_list) = FHundred
    THEN [i \in 1..Len(comp_list) |-> FDiv100(comp_list[i])]
    ELSE comp_list

check_comp_total(comp_list) ==
    LET c == Rescale(comp_list)
    IN  [raised |-> PySum(c) # FOne /\ PySum(c) # FxZero, list |-> c]

(***************************************************************************)
(* State.                                                                  *)
(***************************************************************************)
VARIABLES
    \* check_comp_total called on its own
    cc_in,          \* the list passed in
    cc_out,         \* the result of the call, once it has run
    cc_done,
    \* MainWindow: the composition grid of the experiment-design tab
    grid,           \* comp_sweep_widgets rows 1..4: role, multiplier, start, stop, step
    designComp,     \* setGasAComp .. setGasDComp
    expt_type,      \* expt.expt_type
    gas_comp,       \* expt.gas_comp, the attribute a composition sweep is stored in
    planner,        \* how the last update_ind_var call ended
    plot,           \* what update_plot last drew
    edits,          \* number of widget edits handled
    \* Gas_System and its callers
    is_busy,        \* Gas_System.is_busy
    mfc,            \* the devices behind mfc_A .. mfc_E: gas, setpoint, mixes, closed
    stack,          \* per thread: the Gas_System methods it is inside, outermost first
    req,            \* per thread: the call it made last
    outcome,        \* per thread: how that call ended
    issued,         \* per thread: channel commands issued by that call so far
    ncall,          \* per thread: calls made
    started,        \* per thread: its call has reached a wait on is_busy
    ahead           \* per thread: the callers that were waiting before it

\* the main window and its worker threads
VARIABLES threadpool,         \* [queue, active, maxThreadCount] of the QThreadPool
          worker,             \* per runnable, where its callback stands
          controls_disabled,  \* what toggle_controls set last
          listWidget,         \* the experiments of the study: steps of each
          status,             \* per device, whether its status box is checked
          bound,              \* the devices whose attribute of self is bound
          laser_item,         \* the laser selection box holds a laser
          eqpt,               \* per device, the last command it received
          gui,                \* the GUI thread: where it stands, and how the
                              \* devices answer when they are connected to
          estop,              \* ghost: the emergency stop of the running study
          run,                \* ghost: what the study thread did
          nclicks             \* ghost: number of clicks on Start and Apply

\* analyze_cal_data
VARIABLES polyfit,            \* per chemical, what np.polyfit does with its data
          new_calibration,    \* per chemical, the columns slope .. err_intercept
          fitted,             \* the locals m, err_m, b, err_b
          chem_num,           \* the loop variable
          analysis            \* how far analyze_cal_data has come

\* MainWindow: the experiments of the list and the widgets that show one
VARIABLES expts,              \* per item of listWidget, its Experiment
          currentItem,        \* listWidget.currentItem(); 0 is None
          update_flag,        \* self.update_flag
          form,               \* the values the design-tab widgets hold
          shown,              \* where display_expt stands; ghost: signals fired
          nevents             \* clicks on items and edits of widgets so far

compVars == <<cc_in, cc_out, cc_done>>
plannerVars == <<grid, designComp, expt_type, gas_comp, planner, plot, edits>>
gasVars == <<is_busy, mfc, stack, req, outcome, issued, ncall, started, ahead>>
studyVars == <<threadpool, worker, controls_disabled, listWidget, status, bound,
               laser_item, eqpt, gui, estop, run, nclicks>>
calVars == <<polyfit, new_calibration, fitted, chem_num, analysis>>
formVars == <<expts, currentItem, update_flag, form, shown, nevents>>
vars == <<compVars, plannerVars, gasVars, studyVars, calVars, formVars>>

(***************************************************************************)
(* Bounds of the model.                                                    *)
(***************************************************************************)
MaxEdits == 2
MaxCalls == 2

\* values a composition-grid spin box is set to (percent), multipliers, steps
PctVals == {0, 25, 101}
MultVals == {0, 1, 2}
StepVals == {0, 25}
\* values of the static composition spin boxes
DesignVals == {0, 25}

\* numbers check_comp_total is called with: percentages and fractions
CompNumbers ==
    {FromInt(n) : n \in {0, 8, 10, 25, 35, 57, 100}}
        \cup {FromHundredths(k) : k \in {25, 50}}

(***************************************************************************)
(* check_comp_total on its own.                                            *)
(***************************************************************************)
InitComp ==
    /\ cc_in \in [1..4 -> CompNumbers]
    /\ cc_out = [raised |-> FALSE, list |-> cc_in]
    /\ cc_done = FALSE

CallCheckCompTotal ==
    /\ ~cc_done
    /\ cc_out' = check_comp_total(cc_in)
    /\ cc_done' = TRUE
    /\ UNCHANGED <<cc_in, plannerVars, gasVars, studyVars, calVars, formVars>>

(***************************************************************************)
(* The composition-sweep planner, MainWindow.update_ind_var.  Fractions    *)
(* are kept exactly, in hundredths (100 is the fraction 1).                *)
(***************************************************************************)
NumRows == 4
Rows == 1..NumRows
Roles == {"-", "Fixed", "Fill", "Ind. Variable", "Multiple"}
BlankRow == [role |-> "-", mult |-> 0, start |-> 0, stop |-> 0, step |-> 0]

\* np.arange(start, stop, step) for step > 0
RECURSIVE arange(_, _, _)
arange(start, stop, step) ==
    IF start >= stop THEN <<>>
    ELSE <<start>> \o arange(start + step, stop, step)

RowsOfRole(g, r) == {i \in Rows : g[i].role = r}

RECURSIVE SumOver(_, _)
SumOver(f, S) ==
    IF S = {} THEN 0
    ELSE LET i == CHOOSE j \in S : TRUE IN f[i] + SumOver(f, S \ {i})

\* mutant of CompVals: a Multiple row is not scaled by its multiplier
CompVals_MultipleNotScaled(g, ind_var, k, i) ==
    CASE g[i].role = "Ind. Variable" -> ind_var[k]
      [] g[i].role = "Multiple"      -> ind_var[k]
      [] g[i].role = "Fixed"         -> g[i].start
      [] OTHER                       -> 0

\* comp_vals of one row at sweep index k (lines 790-808); ind_var[k] is a
\* percentage, so comp_vals is in hundredths
CompVals(g, ind_var, k, i) ==
    CASE g[i].role = "Ind. Variable" -> ind_var[k]
      [] g[i].role = "Multiple"      -> ind_var[k] * g[i].mult
      [] g[i].role = "Fixed"         -> g[i].start
      [] OTHER                       -> 0

\* mutant of FillVals: the Fixed rows are not subtracted from the fill
FillVals_FixedNotSubtracted(g, ind_var, k) ==
    100 - SumOver([i \in Rows |-> CompVals(g, ind_var, k, i)],
                  Rows \ (RowsOfRole(g, "Fill") \cup RowsOfRole(g, "Fixed")))

\* fill_vals at sweep index k: 1 - ind_var, less every Multiple and Fixed row
FillVals(g, ind_var, k) ==
    100 - SumOver([i \in Rows |-> CompVals(g, ind_var, k, i)],
                  Rows \ RowsOfRole(g, "Fill"))

\* comp_list after the transpose: one row per sweep index
CompList(g, ind_var) ==
    [k \in 1..Len(ind_var) |->
        [i \in Rows |-> IF g[i].role = "Fill" THEN FillVals(g, ind_var, k)
                        ELSE CompVals(g, ind_var, k, i)]]

\* mutant of SweepPlan: the number of Fill rows is not checked
SweepPlan_FillNotCounted(g) ==
    IF RowsOfRole(g, "-") # {} THEN [status |-> "not ready", matrix |-> <<>>]
    ELSE IF Cardinality(RowsOfRole(g, "Ind. Variable")) # 1
    THEN [status |-> "bad roles", matrix |-> <<>>]
    ELSE     LET iv    == CHOOSE i \in Rows : g[i].role = "Ind. Variable"
             start == g[iv].start
             stop  == g[iv].stop + 1
             step  == g[iv].step
         IN  IF ~(stop > start /\ step > 0)
             THEN [status |-> "bad range", matrix |-> <<>>]
             ELSE LET ind_var == arange(start, stop, step)
                  IN  IF \E k \in 1..Len(ind_var) : FillVals(g, ind_var, k) < 0
                      THEN [status |-> "overflow", matrix |-> <<>>]
                      ELSE [status |-> "stored", matrix |-> CompList(g, ind_var)]

\* mutant of SweepPlan: a row whose role is '-' is not looked for
SweepPlan_UnsetNotChecked(g) ==
    IF Cardinality(RowsOfRole(g, "Fill")) # 1
       \/ Cardinality(RowsOfRole(g, "Ind. Variable")) # 1
    THEN [status |-> "bad roles", matrix |-> <<>>]
    ELSE     LET iv    == CHOOSE i \in Rows : g[i].role = "Ind. Variable"
             start == g[iv].start
             stop  == g[iv].stop + 1
             step  == g[iv].step
         IN  IF ~(stop > start /\ step > 0)
             THEN [status |-> "bad range", matrix |-> <<>>]
             ELSE LET ind_var == arange(start, stop, step)
                  IN  IF \E k \in 1..Len(ind_var) : FillVals(g, ind_var, k) < 0
                      THEN [status |-> "overflow", matrix |-> <<>>]
                      ELSE [status |-> "stored", matrix |-> CompList(g, ind_var)]

\* mutant of SweepPlan: the check of fill_vals < 0 is missing
SweepPlan_NoOverflowCheck(g) ==
    IF RowsOfRole(g, "-") # {} THEN [status |-> "not ready", matrix |-> <<>>]
    ELSE IF Cardinality(RowsOfRole(g, "Fill")) # 1
            \/ Cardinality(RowsOfRole(g, "Ind. Variable")) # 1
    THEN [status |-> "bad roles", matrix |-> <<>>]
    ELSE LET iv    == CHOOSE i \in Rows : g[i].role = "Ind. Variable"
             start == g[iv].start
             stop  == g[iv].stop + 1
             step  == g[iv].step
         IN  IF ~(stop > start /\ step > 0)
             THEN [status |-> "bad range", matrix |-> <<>>]
             ELSE [status |-> "stored",
                   matrix |-> CompList(g, arange(start, stop, step))]

\* the comp_sweep / calibration branch of update_ind_var: what it does on
\* the widget values g
SweepPlan(g) ==
    IF RowsOfRole(g, "-") # {} THEN [status |-> "not ready", matrix |-> <<>>]
    ELSE IF Cardinality(RowsOfRole(g, "Fill")) # 1
            \/ Cardinality(RowsOfRole(g, "Ind. Variable")) # 1
    THEN [status |-> "bad roles", matrix |-> <<>>]
    ELSE LET iv    == CHOOSE i \in Rows : g[i].role = "Ind. Variable"
             start == g[iv].start
             stop  == g[iv].stop + 1
             step  == g[iv].step
         IN  IF ~(stop > start /\ step > 0)
             THEN [status |-> "bad range", matrix |-> <<>>]
             ELSE LET ind_var == arange(start, stop, step)
                  IN  IF \E k \in 1..Len(ind_var) : FillVals(g, ind_var, k) < 0
                      THEN [status |-> "overflow", matrix |-> <<>>]
                      ELSE [status |-> "stored", matrix |-> CompList(g, ind_var)]

\* update_ind_var(expt) for a comp_sweep or calibration experiment: the
\* experiment attribute and the plot it leaves
update_ind_var(g, comp, plt) ==
    LET r == SweepPlan(g)
    IN  [status   |-> r.status,
         gas_comp |-> IF r.status = "stored" THEN r.matrix ELSE comp,
         plot     |-> CASE r.status = "stored" -> "sweep"
                        [] r.status \in {"bad roles", "overflow"} -> "blank"
                        [] OTHER -> plt]

\* update_ind_var_grid: a row whose role is '-' has its spin boxes set to 0
update_ind_var_grid(g) ==
    [i \in Rows |-> IF g[i].role = "-" THEN BlankRow ELSE g[i]]

\* which spin boxes of a row update_ind_var_grid leaves enabled
Enabled(role, col) ==
    CASE role = "Fixed"         -> col = "start"
      [] role = "Multiple"      -> col = "mult"
      [] role = "Ind. Variable" -> col \in {"start", "stop", "step"}
      [] OTHER                  -> FALSE

\* update_expt with the widgets as g and d, on the experiment and plot of
\* ps: the static composition is written to expt.gas_comp[0], the grid is
\* refreshed, the planner runs
update_expt(ps, g, d) ==
    LET g1  == update_ind_var_grid(g)
        mid == [ps.gas_comp EXCEPT ![1] = [i \in Rows |-> d[i] * 100]]
        r   == update_ind_var(g1, mid, ps.plot)
    IN  [grid |-> g1, designComp |-> d, gas_comp |-> r.gas_comp,
         planner |-> r.status, plot |-> r.plot]

\* a freshly added experiment shown in the design tab: every role '-', the
\* static composition boxes showing expt.gas_comp[0]
FreshDesign(d) ==
    [grid |-> [i \in Rows |-> BlankRow], designComp |-> d,
     gas_comp |-> <<[i \in Rows |-> d[i] * 100]>>,
     planner |-> "none", plot |-> "blank"]

\* one edit of a composition-grid widget, handled by update_expt
ApplyEdit(ps, e) ==
    update_expt(ps, [ps.grid EXCEPT ![e.i][e.col] = e.v], ps.designComp)

RECURSIVE RunEdits(_, _)
RunEdits(ps, es) ==
    IF es = <<>> THEN ps ELSE RunEdits(ApplyEdit(ps, Head(es)), Tail(es))

\* the edits by which a user fills in row i as the row t: the role, then
\* each spin box the role enables
RowEdits(i, t) ==
    LET set(col) == IF Enabled(t.role, col) /\ t[col] # 0
                    THEN <<[i |-> i, col |-> col, v |-> t[col]]>> ELSE <<>>
    IN  IF t.role = "-" THEN <<>>
        ELSE <<[i |-> i, col |-> "role", v |-> t.role]>>
             \o set("mult") \o set("start") \o set("stop") \o set("step")

GridEdits(G) ==
    RowEdits(1, G[1]) \o RowEdits(2, G[2]) \o RowEdits(3, G[3]) \o RowEdits(4, G[4])

\* grids the user has filled in, row by row, before the edits the model
\* explores
SetupRows(role) ==
    CASE role = "Ind. Variable" ->
            {[BlankRow EXCEPT !.role = role, !.stop = e, !.step = 25] : e \in {25, 101}}
      [] role = "Fixed" -> {[BlankRow EXCEPT !.role = role, !.start = v] : v \in {0, 25}}
      [] role = "Multiple" -> {[BlankRow EXCEPT !.role = role, !.mult = 1]}
      [] OTHER -> {[BlankRow EXCEPT !.role = role]}

SetupRoles ==
    { <<"-", "-", "-", "-">>,
      <<"Fill", "Ind. Variable", "Multiple", "Fixed">>,
      <<"Ind. Variable", "Fixed", "Fill", "Fixed">>,
      <<"Multiple", "Multiple", "Ind. Variable", "Fill">>,
      <<"Fixed", "Fill", "-", "Ind. Variable">> }

SetupGrids ==
    UNION { {G \in [Rows -> UNION {SetupRows(r) : r \in Roles}] :
                \A i \in Rows : G[i] \in SetupRows(p[i])} : p \in SetupRoles }

Design == [grid |-> grid, designComp |-> designComp, gas_comp |-> gas_comp,
           planner |-> planner, plot |-> plot]

\* the handler runs on the widgets g and d
Handle(g, d) ==
    LET n == update_expt(Design, g, d)
    IN  /\ edits < MaxEdits
        /\ edits' = edits + 1
        /\ grid' = n.grid
        /\ designComp' = n.designComp
        /\ gas_comp' = n.gas_comp
        /\ planner' = n.planner
        /\ plot' = n.plot
        /\ UNCHANGED <<expt_type, compVars, calVars, formVars, gasVars, studyVars>>

\* the user picks another role in a row's combo box
SetRole(i, r) ==
    /\ r # grid[i].role
    /\ Handle([grid EXCEPT ![i].role = r], designComp)

\* the user changes an enabled spin box of a row
SetMult(i, v) ==
    /\ Enabled(grid[i].role, "mult") /\ v # grid[i].mult
    /\ Handle([grid EXCEPT ![i].mult = v], designComp)

SetStart(i, v) ==
    /\ Enabled(grid[i].role, "start") /\ v # grid[i].start
    /\ Handle([grid EXCEPT ![i].start = v], designComp)

SetStop(i, v) ==
    /\ Enabled(grid[i].role, "stop") /\ v # grid[i].stop
    /\ Handle([grid EXCEPT ![i].stop = v], designComp)

SetStep(i, v) ==
    /\ Enabled(grid[i].role, "step") /\ v # grid[i].step
    /\ Handle([grid EXCEPT ![i].step = v], designComp)

\* the user changes one of the static composition spin boxes
SetDesignComp(i, v) ==
    /\ v # designComp[i]
    /\ Handle(grid, [designComp EXCEPT ![i] = v])

InitPlanner ==
    /\ expt_type \in {"comp_sweep", "calibration"}
    /\ edits = 0
    /\ \E G \in SetupGrids, d \in {[i \in Rows |-> 0], [i \in Rows |-> 25]} :
          LET ps == RunEdits(FreshDesign(d), GridEdits(G))
          IN  /\ grid = ps.grid
              /\ designComp = ps.designComp
              /\ gas_comp = ps.gas_comp
              /\ planner = ps.planner
              /\ plot = ps.plot

NextPlanner ==
    \/ \E i \in Rows, r \in Roles : SetRole(i, r)
    \/ \E i \in Rows, v \in MultVals : SetMult(i, v)
    \/ \E i \in Rows, v \in PctVals : SetStart(i, v)
    \/ \E i \in Rows, v \in PctVals : SetStop(i, v)
    \/ \E i \in Rows, v \in StepVals : SetStep(i, v)
    \/ \E i \in Rows, v \in DesignVals : SetDesignComp(i, v)

(***************************************************************************)
(* Gas_System.                                                             *)
(***************************************************************************)
Threads == {"t1", "t2"}
Chan == <<"A", "B", "C", "D">>
AllChan == <<"A", "B", "C", "D", "E">>
Inert == {"Ar", "N2"}
OutputMix == 236
CalMix == 237

\* arguments the callers pass
GasLists == {<<"Ar", "H2", "Ar", "Ar">>, <<"N2", "H2", "CO2", "Ar">>}
Frac(a, b, c, d) ==
    <<FromHundredths(a), FromHundredths(b), FromHundredths(c), FromHundredths(d)>>
Pct(a, b, c, d) == <<FromInt(a), FromInt(b), FromInt(c), FromInt(d)>>
CompLists == {Frac(50, 20, 30, 0), Frac(100, 0, 0, 0), Pct(0, 0, 0, 0),
              Pct(10, 10, 10, 10), Pct(25, 25, 25, 25), Pct(57, 35, 8, 0),
              Pct(0, 14, 55, 31)}
TotFlows == {50}

\* the gases the controllers hold when the program connects
StartGases == {<<"CO2", "H2", "CO2", "H2">>, <<"Ar", "H2", "N2", "CO2">>}

NoMix == [g \in {} |-> FxZero]

\* the alicat commands, as changes of the devices
set_gas(m, ch, g) == [m EXCEPT ![ch].gas = g]
set_flow_rate(m, ch, v) == [m EXCEPT ![ch].setpoint = v]
create_mix(m, ch, no, gases) == [m EXCEPT ![ch].mix[no] = gases]
close(m, ch) == [m EXCEPT ![ch].closed = TRUE]

\* stack frames
Frame(m, at) ==
    [m |-> m, at |-> at, i |-> 1, comp |-> <<>>, gl |-> <<>>, flow |-> 0,
     overtook |-> FALSE]
Top(t) == stack[t][Len(stack[t])]
Below(t) == SubSeq(stack[t], 1, Len(stack[t]) - 1)
WithTop(t, f) == Below(t) \o <<f>>
In(t, m, at) == stack[t] # <<>> /\ Top(t).m = m /\ Top(t).at = at

\* thread t is in set_flows between its first flow write and the end of the
\* set_gasE that set_flows calls
InSetFlowsWindow(t) ==
    stack[t] # <<>> /\ stack[t][1].m = "set_flows" /\ issued[t] >= 1

\* before: for a shut_down called right after a shut_down of the same thread
\* returned, the devices and the flag as that first shut_down left them
Request(m, comp, gl, flow) ==
    [m |-> m, comp |-> comp, gl |-> gl, flow |-> flow, before |-> <<>>]

\* the call of thread t ends: by a return or by the exception how
Finish(t, how) ==
    /\ stack' = [stack EXCEPT ![t] = <<>>]
    /\ outcome' = [outcome EXCEPT ![t] = how]
    /\ started' = [started EXCEPT ![t] = FALSE]
    /\ ahead' = [u \in Threads |-> IF u = t THEN {} ELSE ahead[u] \ {t}]

\* thread t reaches a wait on is_busy for the first time in its call
Arrive(t) ==
    /\ started' = [started EXCEPT ![t] = TRUE]
    /\ ahead' = [ahead EXCEPT ![t] = {u \in Threads \ {t} : started[u]}]

Goto(t, st) ==
    /\ stack' = [stack EXCEPT ![t] = st]
    /\ outcome' = outcome
    /\ IF st[Len(st)].at = "wait" /\ ~started[t]
       THEN Arrive(t) ELSE UNCHANGED <<started, ahead>>

Leave(t, st) == IF st = <<>> THEN Finish(t, "returned") ELSE Goto(t, st)

\* the stack once the top method has returned: set_flows returns after its
\* set_gasE, disconnect and test_pressure go on
AfterReturn(t) ==
    LET rest == Below(t)
        n    == Len(rest)
    IN  IF rest = <<>> THEN <<>>
        ELSE CASE rest[n].m = "disconnect"    -> [rest EXCEPT ![n].at = "wait"]
               [] rest[n].m = "test_pressure" -> [rest EXCEPT ![n].at = "ramp", ![n].i = 1]
               [] OTHER                       -> SubSeq(rest, 1, n - 1)

\* thread t calls a method: r is the request, frames its stack, out how the
\* call stands (an exception raised before the first wait ends it at once)
Begin(t, r, frames, out) ==
    /\ stack[t] = <<>>
    /\ ncall' = [ncall EXCEPT ![t] = @ + 1]
    /\ req' = [req EXCEPT ![t] = r]
    /\ issued' = [issued EXCEPT ![t] = 0]
    /\ stack' = [stack EXCEPT ![t] = frames]
    /\ outcome' = [outcome EXCEPT ![t] = out]
    /\ IF frames # <<>> /\ frames[Len(frames)].at = "wait"
       THEN Arrive(t) ELSE UNCHANGED <<started, ahead>>

\* the call is made by a caller of Gas_System taken on its own
Enter(t, r, frames, out) ==
    /\ SumOver(ncall, Threads) < MaxCalls
    /\ Begin(t, r, frames, out)
    /\ UNCHANGED <<compVars, calVars, formVars, plannerVars, studyVars>>

\* thread t issues one command to channel ch, which leaves the devices as
\* m2 and the thread's stack as st; a closed handle raises instead
Command(t, ch, m2, st) ==
    /\ issued' = [issued EXCEPT ![t] = @ + 1]
    /\ IF mfc[ch].closed
       THEN mfc' = mfc /\ Finish(t, "IOError")
       ELSE mfc' = m2 /\ Leave(t, st)
    /\ UNCHANGED <<is_busy, req, ncall, compVars, calVars, formVars, plannerVars, studyVars>>

\* the body of a method goes on to step i + 1, or to the release after its
\* last step n
Advance(t, n) ==
    IF Top(t).i < n THEN WithTop(t, [Top(t) EXCEPT !.i = @ + 1])
    ELSE WithTop(t, [Top(t) EXCEPT !.at = "release"])

(* while self.is_busy: time.sleep(0) *)
\* the frame notes whether the wait was passed while another thread was
\* between the flow writes of its set_flows and the end of its set_gasE
WaitBusy(t) ==
    /\ stack[t] # <<>> /\ Top(t).at = "wait"
    /\ ~is_busy
    /\ Goto(t, WithTop(t, [Top(t) EXCEPT
                            !.at = "acquire",
                            !.overtook = \E u \in Threads \ {t} : InSetFlowsWindow(u)]))
    /\ UNCHANGED <<is_busy, mfc, req, issued, ncall,
                   compVars, calVars, formVars, plannerVars, studyVars>>

(* self.is_busy = True *)
SetBusy(t) ==
    /\ stack[t] # <<>> /\ Top(t).at = "acquire"
    /\ is_busy' = TRUE
    /\ Goto(t, WithTop(t, [Top(t) EXCEPT !.at = "body", !.i = 1]))
    /\ UNCHANGED <<mfc, req, issued, ncall, compVars, calVars, formVars, plannerVars, studyVars>>

(* self.is_busy = False, and what follows it in the method *)
ClearBusy(t) ==
    /\ stack[t] # <<>> /\ Top(t).at = "release"
    /\ is_busy' = FALSE
    /\ IF Top(t).m = "set_flows"
       THEN Goto(t, WithTop(t, [Top(t) EXCEPT !.at = "call"]))
       ELSE Leave(t, AfterReturn(t))
    /\ UNCHANGED <<mfc, req, issued, ncall, compVars, calVars, formVars, plannerVars, studyVars>>

(* set_gasses *)
Call_set_gasses(t, gas_list) ==
    /\ Enter(t, Request("set_gasses", <<>>, gas_list, 0),
             <<[Frame("set_gasses", "wait") EXCEPT !.gl = gas_list]>>, "running")
    /\ UNCHANGED <<is_busy, mfc>>

set_gasses_body(t) ==
    /\ In(t, "set_gasses", "body")
    /\ Command(t, Chan[Top(t).i],
               set_gas(mfc, Chan[Top(t).i], Top(t).gl[Top(t).i]), Advance(t, 4))

(* set_flows *)
\* mutant of Call_set_flows: the flag is taken before the composition is
\* checked
Call_set_flows_BusyBeforeCheck(t, comp_list, tot_flow) ==
    LET r == check_comp_total(comp_list)
    IN  /\ Enter(t, Request("set_flows", comp_list, <<>>, tot_flow),
                 IF r.raised THEN <<>>
                 ELSE <<[Frame("set_flows", "wait") EXCEPT !.comp = r.list,
                                                          !.flow = tot_flow]>>,
                 IF r.raised THEN "AttributeError" ELSE "running")
        /\ is_busy' = (is_busy \/ r.raised)
        /\ UNCHANGED mfc

Call_set_flows(t, comp_list, tot_flow) ==
    LET r == check_comp_total(comp_list)
    IN  /\ Enter(t, Request("set_flows", comp_list, <<>>, tot_flow),
                 IF r.raised THEN <<>>
                 ELSE <<[Frame("set_flows", "wait") EXCEPT !.comp = r.list,
                                                          !.flow = tot_flow]>>,
                 IF r.raised THEN "AttributeError" ELSE "running")
        /\ UNCHANGED <<is_busy, mfc>>

\* mutant of set_flows_body: the fraction is written without the total flow
set_flows_body_FractionOnly(t) ==
    /\ In(t, "set_flows", "body")
    /\ Command(t, Chan[Top(t).i],
               set_flow_rate(mfc, Chan[Top(t).i], Top(t).comp[Top(t).i]),
               Advance(t, 4))

set_flows_body(t) ==
    /\ In(t, "set_flows", "body")
    /\ Command(t, Chan[Top(t).i],
               set_flow_rate(mfc, Chan[Top(t).i],
                             FMulInt(Top(t).comp[Top(t).i], Top(t).flow)),
               Advance(t, 4))

\* self.set_gasE(comp_list), the last line of set_flows
set_flows_call_set_gasE(t) ==
    LET r == check_comp_total(Top(t).comp)
    IN  /\ In(t, "set_flows", "call")
        /\ IF r.raised THEN Finish(t, "AttributeError")
           ELSE Goto(t, stack[t] \o <<[Frame("set_gasE", "wait") EXCEPT !.comp = r.list]>>)
        /\ UNCHANGED <<is_busy, mfc, req, issued, ncall,
                   compVars, calVars, formVars, plannerVars, studyVars>>

(* set_gasE *)
Call_set_gasE(t, comp_list) ==
    LET r == check_comp_total(comp_list)
    IN  /\ Enter(t, Request("set_gasE", comp_list, <<>>, 0),
                 IF r.raised THEN <<>>
                 ELSE <<[Frame("set_gasE", "wait") EXCEPT !.comp = r.list]>>,
                 IF r.raised THEN "AttributeError" ELSE "running")
        /\ UNCHANGED <<is_busy, mfc>>

\* gas_list.append(mfc.get()['gas'])
set_gasE_get(t) ==
    /\ In(t, "set_gasE", "body") /\ Top(t).i <= 4
    /\ Command(t, Chan[Top(t).i], mfc,
               WithTop(t, [Top(t) EXCEPT !.i = @ + 1,
                                         !.gl = Append(@, mfc[Chan[Top(t).i]].gas)]))

\* dict(zip(gas_list, percents)) less its zero values: a gas listed twice
\* keeps the percentage of its last channel
GasDict(gas_list, comp_list) ==
    LET percents == [i \in 1..4 |-> FMulInt(comp_list[i], 100)]
        last(g)  == CHOOSE i \in 1..4 :
                        gas_list[i] = g /\ \A j \in 1..4 : gas_list[j] = g => j <= i
        keys     == {gas_list[i] : i \in 1..4}
    IN  [g \in {k \in keys : percents[last(k)] # FxZero} |-> percents[last(g)]]

set_gasE_mix(t) ==
    LET gas_dict == GasDict(Top(t).gl, Top(t).comp)
    IN  /\ In(t, "set_gasE", "body") /\ Top(t).i = 5
        /\ IF Cardinality(DOMAIN gas_dict) > 1
           THEN Command(t, "E", create_mix(mfc, "E", OutputMix, gas_dict),
                        WithTop(t, [Top(t) EXCEPT !.i = 6]))
           ELSE IF Cardinality(DOMAIN gas_dict) = 1
           THEN Command(t, "E", set_gas(mfc, "E", CHOOSE g \in DOMAIN gas_dict : TRUE),
                        WithTop(t, [Top(t) EXCEPT !.at = "release"]))
           ELSE \* list(gas_dict)[0] of an empty dict
                /\ Finish(t, "IndexError")
                /\ UNCHANGED <<is_busy, mfc, req, issued, ncall,
                   compVars, calVars, formVars, plannerVars, studyVars>>

\* self.mfc_E.set_gas(236)
set_gasE_select(t) ==
    /\ In(t, "set_gasE", "body") /\ Top(t).i = 6
    /\ Command(t, "E", set_gas(mfc, "E", "mix 236"),
               WithTop(t, [Top(t) EXCEPT !.at = "release"]))

(* read_flows, print_details, print_flows: one get() per step *)
Call_read(t, m) ==
    /\ Enter(t, Request(m, <<>>, <<>>, 0), <<Frame(m, "wait")>>, "running")
    /\ UNCHANGED <<is_busy, mfc>>

read_body(t) ==
    /\ stack[t] # <<>> /\ Top(t).at = "body"
    /\ \/ /\ Top(t).m \in {"read_flows", "print_details"}
          /\ Command(t, AllChan[Top(t).i], mfc, Advance(t, 5))
       \/ /\ Top(t).m = "print_flows"
          /\ Command(t, AllChan[(Top(t).i + 1) \div 2], mfc, Advance(t, 10))

(* shut_down *)
Call_shut_down(t) ==
    /\ Enter(t, [Request("shut_down", <<>>, <<>>, 0) EXCEPT
                     !.before = IF outcome[t] = "returned" /\ req[t].m = "shut_down"
                                THEN <<[mfc |-> mfc, is_busy |-> is_busy]>>
                                ELSE <<>>],
             <<Frame("shut_down", "wait")>>, "running")
    /\ UNCHANGED <<is_busy, mfc>>

\* mfc.get()['gas'] in ['Ar', 'N2']
shut_down_get(t) ==
    /\ In(t, "shut_down", "body") /\ Top(t).gl = <<>>
    /\ Command(t, Chan[Top(t).i], mfc,
               WithTop(t, [Top(t) EXCEPT !.gl = <<mfc[Chan[Top(t).i]].gas>>]))

\* mutant of shut_down_set: every channel is set to 0
shut_down_set_AllZero(t) ==
    /\ In(t, "shut_down", "body") /\ Top(t).gl # <<>>
    /\ Command(t, Chan[Top(t).i],
               set_flow_rate(mfc, Chan[Top(t).i],
                             FxZero),
               LET f == [Top(t) EXCEPT !.gl = <<>>]
               IN  IF f.i < 4 THEN WithTop(t, [f EXCEPT !.i = @ + 1])
                   ELSE WithTop(t, [f EXCEPT !.at = "release"]))

\* mutant of shut_down_set: the inert channels are raised by 1 sccm
shut_down_set_RaiseByOne(t) ==
    /\ In(t, "shut_down", "body") /\ Top(t).gl # <<>>
    /\ Command(t, Chan[Top(t).i],
               set_flow_rate(mfc, Chan[Top(t).i],
                             IF Top(t).gl[1] \in Inert
                             THEN FAdd(mfc[Chan[Top(t).i]].setpoint, FOne) ELSE FxZero),
               LET f == [Top(t) EXCEPT !.gl = <<>>]
               IN  IF f.i < 4 THEN WithTop(t, [f EXCEPT !.i = @ + 1])
                   ELSE WithTop(t, [f EXCEPT !.at = "release"]))

\* mfc.set_flow_rate(1.0) or mfc.set_flow_rate(0.0)
shut_down_set(t) ==
    /\ In(t, "shut_down", "body") /\ Top(t).gl # <<>>
    /\ Command(t, Chan[Top(t).i],
               set_flow_rate(mfc, Chan[Top(t).i],
                             IF Top(t).gl[1] \in Inert THEN FOne ELSE FxZero),
               LET f == [Top(t) EXCEPT !.gl = <<>>]
               IN  IF f.i < 4 THEN WithTop(t, [f EXCEPT !.i = @ + 1])
                   ELSE WithTop(t, [f EXCEPT !.at = "release"]))

(* disconnect: shut_down(), then the handles are closed *)
Call_disconnect(t) ==
    /\ Enter(t, Request("disconnect", <<>>, <<>>, 0),
             <<Frame("disconnect", "call"), Frame("shut_down", "wait")>>, "running")
    /\ UNCHANGED <<is_busy, mfc>>

disconnect_body(t) ==
    /\ In(t, "disconnect", "body")
    /\ Command(t, AllChan[Top(t).i], close(mfc, AllChan[Top(t).i]), Advance(t, 5))

(* set_calibration_gas *)
factory_gasses == {"C2H2", "Air", "Ar", "i-C4H10", "n-C4H10", "CO2", "CO",
                   "D2", "C2H6", "C2H4", "He", "H2", "Kr", "CH4", "Ne",
                   "N2", "N2O", "O2", "C3H8", "SF6", "Xe"}

\* calibration tables: per row the chemical, the tag after its '_' and ppm
CalRow(chem, tag, ppm) == [chem |-> chem, tag |-> tag, ppm |-> ppm]
CalDFs == {<<CalRow("CO2", "FID", 1000), CalRow("CO2", "TCD", 2000),
             CalRow("c2h4", "FID", 500), CalRow("H2", "TCD", 3000)>>,
           <<CalRow("CH4", "FID", 10000), CalRow("CO", "FID", 20000),
             CalRow("C2H6", "FID", 20000), CalRow("C2H4", "FID", 40000),
             CalRow("H2", "TCD", 50000), CalRow("CO2", "TCD", 60000)>>,
           <<CalRow("Ar", "TCD", 5000), CalRow("CO2", "TCD", 100000)>>}

\* percents, in units of 1/10000 percent, after the index is mapped to the
\* text before '_' and the duplicated names are dropped: the first row of
\* each name stays
RECURSIVE DropDuplicated(_, _)
DropDuplicated(rows, seen) ==
    IF rows = <<>> THEN <<>>
    ELSE IF Head(rows).chem \in seen THEN DropDuplicated(Tail(rows), seen)
    ELSE <<[chem |-> Head(rows).chem, pct |-> Head(rows).ppm]>>
            \o DropDuplicated(Tail(rows), seen \cup {Head(rows).chem})

RECURSIVE SumPct(_)
SumPct(p) == IF p = <<>> THEN 0 ELSE Head(p).pct + SumPct(Tail(p))

\* percents[fill_gas] = 100 - percents.sum(): the entry of the fill gas is
\* replaced where it stands, or appended
WithFill(p, fill_gas) ==
    LET v == 1000000 - SumPct(p)
    IN  IF \E k \in 1..Len(p) : p[k].chem = fill_gas
        THEN [k \in 1..Len(p) |->
                 IF p[k].chem = fill_gas THEN [p[k] EXCEPT !.pct = v] ELSE p[k]]
        ELSE Append(p, [chem |-> fill_gas, pct |-> v])

\* percents.sort_values(ascending=False); equal values stay in their order
\* or come out reversed (the sort is not stated to be stable)
SortDescending(p, stable) ==
    LET before(i, j) == \/ p[i].pct > p[j].pct
                        \/ p[i].pct = p[j].pct /\ (IF stable THEN i < j ELSE i > j)
        rank(i) == Cardinality({j \in 1..Len(p) : before(j, i)})
    IN  [k \in 1..Len(p) |-> p[CHOOSE i \in 1..Len(p) : rank(i) = k - 1]]

IsFactoryGas(e) == e.chem \in factory_gasses

\* mutant of CalPercents: the chemicals are not filtered by factory_gasses
CalPercents_NoFactoryFilter(calDF, fill_gas, stable) ==
    LET sorted == SortDescending(WithFill(DropDuplicated(calDF, {}), fill_gas), stable)
    IN  SubSeq(sorted, 1, IF Len(sorted) < 5 THEN Len(sorted) ELSE 5)

\* the mixture written to slot 237: percents[new_idx[0]][0:5].to_dict(), in
\* the order of the dict
CalPercents(calDF, fill_gas, stable) ==
    LET sorted == SortDescending(WithFill(DropDuplicated(calDF, {}), fill_gas), stable)
        known  == SelectSeq(sorted, IsFactoryGas)
    IN  SubSeq(known, 1, IF Len(known) < 5 THEN Len(known) ELSE 5)

Call_set_calibration_gas(t, ch, calDF) ==
    /\ Enter(t, Request("set_calibration_gas", calDF, <<ch>>, 0),
             <<[Frame("set_calibration_gas", "mix") EXCEPT !.gl = <<ch>>,
                                                            !.comp = calDF]>>,
             "running")
    /\ UNCHANGED <<is_busy, mfc>>

set_calibration_gas_body(t) ==
    /\ In(t, "set_calibration_gas", "mix")
    /\ \E stable \in BOOLEAN :
          Command(t, Top(t).gl[1],
                  create_mix(mfc, Top(t).gl[1], CalMix,
                             CalPercents(Top(t).comp, "Ar", stable)),
                  Below(t))

(* test_pressure *)
Setpoints == <<5, 10, 15, 20, 25, 30, 35, 40, 45, 50>>
NumSamples == 5

Call_test_pressure(t) ==
    /\ Enter(t, Request("test_pressure", <<>>, <<>>, 0),
             <<Frame("test_pressure", "scan")>>, "running")
    /\ UNCHANGED <<is_busy, mfc>>

\* the loop over mfc_list goes on to the next controller or ends
ScanNext(f) ==
    IF f.i < 4 THEN [f EXCEPT !.at = "scan", !.i = @ + 1]
    ELSE [f EXCEPT !.at = "probe"]

\* if mfc.get()['gas'] in ['Ar', 'N2']: test_mfc = mfc
test_pressure_scan(t) ==
    /\ In(t, "test_pressure", "scan")
    /\ Command(t, Chan[Top(t).i], mfc,
               IF mfc[Chan[Top(t).i]].gas \in Inert
               THEN WithTop(t, ScanNext([Top(t) EXCEPT !.gl = <<Chan[Top(t).i]>>]))
               ELSE WithTop(t, [Top(t) EXCEPT !.at = "zero"]))

\* else: mfc.set_flow_rate(0.0)
test_pressure_zero(t) ==
    /\ In(t, "test_pressure", "zero")
    /\ Command(t, Chan[Top(t).i], set_flow_rate(mfc, Chan[Top(t).i], FxZero),
               WithTop(t, ScanNext(Top(t))))

\* test_mfc.get()['gas']; test_mfc is unbound when no controller held Ar or N2
test_pressure_probe(t) ==
    /\ In(t, "test_pressure", "probe")
    /\ IF Top(t).gl = <<>>
       THEN /\ Finish(t, "UnboundLocalError")
            /\ UNCHANGED <<is_busy, mfc, req, issued, ncall,
                   compVars, calVars, formVars, plannerVars, studyVars>>
       ELSE Command(t, Top(t).gl[1], mfc,
                    WithTop(t, [Top(t) EXCEPT !.at = "setE",
                                              !.comp = <<mfc[Top(t).gl[1]].gas>>]))

\* self.mfc_E.set_gas(...)
test_pressure_setE(t) ==
    /\ In(t, "test_pressure", "setE")
    /\ Command(t, "E", set_gas(mfc, "E", Top(t).comp[1]),
               WithTop(t, [Top(t) EXCEPT !.at = "call"]))

\* self.print_flows()
test_pressure_call_print_flows(t) ==
    /\ In(t, "test_pressure", "call")
    /\ Goto(t, stack[t] \o <<Frame("print_flows", "wait")>>)
    /\ UNCHANGED <<is_busy, mfc, req, issued, ncall,
                   compVars, calVars, formVars, plannerVars, studyVars>>

\* for setpoint in range(5, 51, 5): one set_flow_rate, then per sample a
\* get() of test_mfc and a get() of mfc_E
test_pressure_ramp(t) ==
    LET per  == 1 + 2 * NumSamples
        p    == Top(t).i - 1
        k    == p % per
        sp   == Setpoints[(p \div per) + 1]
        tm   == Top(t).gl[1]
        nxt  == IF Top(t).i < per * Len(Setpoints)
                THEN WithTop(t, [Top(t) EXCEPT !.i = @ + 1]) ELSE Below(t)
    IN  /\ In(t, "test_pressure", "ramp")
        /\ IF k = 0 THEN Command(t, tm, set_flow_rate(mfc, tm, FromInt(sp)), nxt)
           ELSE IF k % 2 = 1 THEN Command(t, tm, mfc, nxt)
           ELSE Command(t, "E", mfc, nxt)

\* the next step of thread t is a command to a channel
AtCommand(t) ==
    /\ stack[t] # <<>>
    /\ Top(t).at \in {"body", "mix", "scan", "zero", "probe", "setE", "ramp"}
    /\ ~(Top(t).at = "probe" /\ Top(t).gl = <<>>)
    /\ ~(Top(t).m = "set_gasE" /\ Top(t).i = 5
           /\ DOMAIN GasDict(Top(t).gl, Top(t).comp) = {})

\* the command raises (serial port error): the exception leaves the method
CommandRaises(t) ==
    /\ AtCommand(t)
    /\ Finish(t, "IOError")
    /\ UNCHANGED <<is_busy, mfc, req, issued, ncall,
                   compVars, calVars, formVars, plannerVars, studyVars>>

(* Gas_System.__init__ *)
InitGasWith(gases) ==
    /\ is_busy = FALSE
    /\ mfc = [ch \in {"A", "B", "C", "D", "E"} |->
                [gas      |-> IF ch = "A" THEN gases[1] ELSE IF ch = "B" THEN gases[2]
                              ELSE IF ch = "C" THEN gases[3]
                              ELSE IF ch = "D" THEN gases[4] ELSE "Ar",
                 setpoint |-> FxZero,
                 mix      |-> [n \in {OutputMix, CalMix} |-> NoMix],
                 closed   |-> FALSE]]
    /\ stack = [t \in Threads |-> <<>>]
    /\ req = [t \in Threads |-> Request("none", <<>>, <<>>, 0)]
    /\ outcome = [t \in Threads |-> "none"]
    /\ issued = [t \in Threads |-> 0]
    /\ ncall = [t \in Threads |-> 0]
    /\ started = [t \in Threads |-> FALSE]
    /\ ahead = [t \in Threads |-> {}]

InitGas == \E gases \in StartGases : InitGasWith(gases)

\* one step of thread t, its calls drawing their arguments from the given sets
GasStep(t, gas_lists, comp_lists, calDFs) ==
    \/ \E gas_list \in gas_lists : Call_set_gasses(t, gas_list)
    \/ \E comp_list \in comp_lists, tot_flow \in TotFlows :
          Call_set_flows(t, comp_list, tot_flow)
    \/ \E comp_list \in comp_lists : Call_set_gasE(t, comp_list)
    \/ \E m \in {"read_flows", "print_details", "print_flows"} : Call_read(t, m)
    \/ Call_shut_down(t)
    \/ Call_disconnect(t)
    \/ \E ch \in {"A", "D"}, calDF \in calDFs : Call_set_calibration_gas(t, ch, calDF)
    \/ Call_test_pressure(t)
    \/ WaitBusy(t)
    \/ SetBusy(t)
    \/ ClearBusy(t)
    \/ set_gasses_body(t)
    \/ set_flows_body(t)
    \/ set_flows_call_set_gasE(t)
    \/ set_gasE_get(t)
    \/ set_gasE_mix(t)
    \/ set_gasE_select(t)
    \/ read_body(t)
    \/ shut_down_get(t)
    \/ shut_down_set(t)
    \/ disconnect_body(t)
    \/ set_calibration_gas_body(t)
    \/ test_pressure_scan(t)
    \/ test_pressure_zero(t)
    \/ test_pressure_probe(t)
    \/ test_pressure_setE(t)
    \/ test_pressure_call_print_flows(t)
    \/ test_pressure_ramp(t)
    \/ CommandRaises(t)

\* the arguments used when two threads call at once
SharedCompLists == {Frac(50, 20, 30, 0), Pct(0, 0, 0, 0), Pct(10, 10, 10, 10)}
SharedGasLists == {<<"N2", "H2", "CO2", "Ar">>}
SharedCalDFs == {<<CalRow("CO2", "FID", 1000), CalRow("H2", "TCD", 3000)>>}

NextGas ==
    \E t \in Threads : GasStep(t, SharedGasLists, SharedCompLists, SharedCalDFs)

\* one caller alone: the control thread
NextGasSeq == GasStep("t1", GasLists, CompLists, CalDFs)

(***************************************************************************)
(* The main window: init_equipment, the thread pool, start_study,          *)
(* manual_ctrl_eqpt, shut_down and emergency_stop.  Here every call of a   *)
(* device object, Gas_System included, is one command; the calls the GUI   *)
(* thread and a worker make into Gas_System are followed step by step     *)
(* further below.                                                          *)
(***************************************************************************)
MaxClicks == 2

Runnables == {"run_study_thread", "manual_ctrl_thread"}
Equipment == {"gc", "gas", "heater", "laser"}
Devices == {"gas", "heater", "laser"}

\* what the constructor of each device object does when init_equipment
\* calls it; the diode laser may also connect without a supported output
ConnectOutcomes ==
    [gc : {"ok", "raises"}, gas : {"ok", "raises"}, heater : {"ok", "raises"},
     laser : {"ok", "raises", "unsupported"}]

\* update_ind_var, lines 818-826: the values of a sweep that is not a
\* composition sweep
TempSweep(start, stop, step) == arange(start, stop + 1, step)

\* the studies of the list widget: per experiment the temperatures of its steps
StudyLists == {<<TempSweep(300, 340, 10)>>,
               <<TempSweep(300, 300, 10), TempSweep(300, 310, 10)>>}

Parked == [pc |-> "idle", expt |-> 0, step |-> 0]
Entry(r) == [pc |-> "toggle", expt |-> 0, step |-> 0]

\* ghost: what the study thread did since Start was clicked last
NoRun == [heater |-> <<>>, steps |-> 0, shut_downs |-> 0, ended |-> "no"]

Running(r) == r \in threadpool.active

\* the GUI thread is in its event loop
GuiIdle == gui.pc = "idle"

(* init_equipment: one try block per device *)
\* self.gc_connector = GC_Connector()
init_equipment_gc_NotCaught ==
    /\ gui.pc = "init_gc"
    /\ IF gui.oc.gc = "ok"
       THEN /\ bound' = bound \cup {"gc"}
            /\ status' = [status EXCEPT !["gc"] = TRUE]
            /\ gui' = [gui EXCEPT !.pc = "init_gas"]
       ELSE /\ gui' = [gui EXCEPT !.pc = "failed"]
            /\ UNCHANGED <<bound, status>>
    /\ UNCHANGED <<threadpool, worker, controls_disabled, listWidget, laser_item,
                   eqpt, estop, run, nclicks, compVars, calVars, formVars, plannerVars, gasVars>>

init_equipment_gc ==
    /\ gui.pc = "init_gc"
    /\ IF gui.oc.gc = "ok"
       THEN /\ bound' = bound \cup {"gc"}
            /\ status' = [status EXCEPT !["gc"] = TRUE]
       ELSE /\ status' = [status EXCEPT !["gc"] = FALSE]
            /\ UNCHANGED bound
    /\ gui' = [gui EXCEPT !.pc = "init_gas"]
    /\ UNCHANGED <<threadpool, worker, controls_disabled, listWidget, laser_item,
                   eqpt, estop, run, nclicks, compVars, calVars, formVars, plannerVars, gasVars>>

\* self.gas_controller = Gas_System()
init_equipment_gas ==
    /\ gui.pc = "init_gas"
    /\ IF gui.oc.gas = "ok"
       THEN /\ bound' = bound \cup {"gas"}
            /\ status' = [status EXCEPT !["gas"] = TRUE]
       ELSE /\ status' = [status EXCEPT !["gas"] = FALSE]
            /\ UNCHANGED bound
    /\ gui' = [gui EXCEPT !.pc = "init_heater"]
    /\ UNCHANGED <<threadpool, worker, controls_disabled, listWidget, laser_item,
                   eqpt, estop, run, nclicks, compVars, calVars, formVars, plannerVars, gasVars>>

\* self.heater = Heater()
init_equipment_heater ==
    /\ gui.pc = "init_heater"
    /\ IF gui.oc.heater = "ok"
       THEN /\ bound' = bound \cup {"heater"}
            /\ status' = [status EXCEPT !["heater"] = TRUE]
       ELSE /\ status' = [status EXCEPT !["heater"] = FALSE]
            /\ UNCHANGED bound
    /\ gui' = [gui EXCEPT !.pc = "init_laser"]
    /\ UNCHANGED <<threadpool, worker, controls_disabled, listWidget, laser_item,
                   eqpt, estop, run, nclicks, compVars, calVars, formVars, plannerVars, gasVars>>

\* laser = Diode_Laser(); with a supported output the laser becomes the item
\* of the selection box and change_laser binds self.laser_controller and
\* checks laser_Status; an exception unchecks laser_Status
init_equipment_laser ==
    /\ gui.pc = "init_laser"
    /\ CASE gui.oc.laser = "ok" ->
              /\ laser_item' = TRUE
              /\ bound' = bound \cup {"laser"}
              /\ status' = [status EXCEPT !["laser"] = TRUE]
         [] gui.oc.laser = "raises" ->
              /\ status' = [status EXCEPT !["laser"] = FALSE]
              /\ UNCHANGED <<laser_item, bound>>
         [] OTHER -> UNCHANGED <<laser_item, bound, status>>
    /\ gui' = [gui EXCEPT !.pc = "init_limits"]
    /\ UNCHANGED <<threadpool, worker, controls_disabled, listWidget,
                   eqpt, estop, run, nclicks, compVars, calVars, formVars, plannerVars, gasVars>>

\* self.set_form_limits(), the last line of init_equipment: it reads
\* self.gc_connector and self.laser_controller when their status is checked
init_equipment_limits ==
    /\ gui.pc = "init_limits"
    /\ gui' = [gui EXCEPT !.pc =
                  IF {d \in {"gc", "laser"} : status[d]} \subseteq bound
                  THEN "idle" ELSE "failed"]
    /\ UNCHANGED <<threadpool, worker, controls_disabled, listWidget, status,
                   bound, laser_item, eqpt, estop, run, nclicks,
                   compVars, calVars, formVars, plannerVars, gasVars>>

(* the thread pool *)
\* QThreadPool.start(runnable): the runnable gets a thread when one is
\* free and waits in the queue otherwise
PoolStart(r) ==
    IF Cardinality(threadpool.active) < threadpool.maxThreadCount
    THEN /\ threadpool' = [threadpool EXCEPT !.active = @ \cup {r}]
         /\ worker' = [worker EXCEPT ![r] = Entry(r)]
    ELSE /\ threadpool' = [threadpool EXCEPT !.queue = Append(@, r)]
         /\ UNCHANGED worker

\* Worker.run returns: the thread is free
WorkerDone(r) == [threadpool EXCEPT !.active = @ \ {r}]

InQueue(r) == \E k \in 1..Len(threadpool.queue) : threadpool.queue[k] = r

\* butStart.clicked: threadpool.start(self.run_study_thread); ghost: an
\* earlier stop is over when the next study is asked for
ClickStart ==
    /\ GuiIdle
    /\ nclicks < MaxClicks
    /\ ~controls_disabled
    /\ ~Running("run_study_thread") /\ ~InQueue("run_study_thread")
    /\ PoolStart("run_study_thread")
    /\ nclicks' = nclicks + 1
    /\ estop' = [stopped |-> FALSE, shut_downs |-> 0]
    /\ run' = NoRun
    /\ UNCHANGED <<controls_disabled, listWidget, status, bound, laser_item,
                   eqpt, gui, compVars, calVars, formVars, plannerVars, gasVars>>

\* Apply.clicked: threadpool.start(self.manual_ctrl_thread)
ClickApply ==
    /\ GuiIdle
    /\ nclicks < MaxClicks
    /\ ~controls_disabled
    /\ ~Running("manual_ctrl_thread") /\ ~InQueue("manual_ctrl_thread")
    /\ PoolStart("manual_ctrl_thread")
    /\ nclicks' = nclicks + 1
    /\ UNCHANGED <<controls_disabled, listWidget, status, bound, laser_item,
                   eqpt, gui, estop, run, compVars, calVars, formVars, plannerVars, gasVars>>

\* a thread of the pool is free and takes the first runnable of the queue
PoolTake ==
    /\ threadpool.queue # <<>>
    /\ Cardinality(threadpool.active) < threadpool.maxThreadCount
    /\ LET r == Head(threadpool.queue)
       IN  /\ threadpool' = [threadpool EXCEPT !.queue = Tail(@),
                                               !.active = @ \cup {r}]
           /\ worker' = [worker EXCEPT ![r] = Entry(r)]
    /\ UNCHANGED <<controls_disabled, listWidget, status, bound, laser_item,
                   eqpt, gui, estop, run, nclicks,
                   compVars, calVars, formVars, plannerVars, gasVars>>

(* MainWindow.shut_down *)
\* the devices whose status box is checked
Connected == {d \in Devices : status[d]}

\* the devices MainWindow.shut_down calls: the gas system and the heater by
\* their status boxes, the lasers by the items of the selection box
ShutDownTargets ==
    {d \in {"gas", "heater"} : status[d]} \cup (IF laser_item THEN {"laser"} ELSE {})

AfterShutDown ==
    [d \in Devices |-> IF d \in ShutDownTargets THEN "shut_down" ELSE eqpt[d]]

\* ghost: one more invocation of MainWindow.shut_down since the stop
CountShutDown == IF estop.stopped THEN [estop EXCEPT !.shut_downs = @ + 1] ELSE estop

StudyAt(pc) == Running("run_study_thread") /\ worker["run_study_thread"].pc = pc
ManualAt(pc) == Running("manual_ctrl_thread") /\ worker["manual_ctrl_thread"].pc = pc

StudyGoto(pc) == worker' = [worker EXCEPT !["run_study_thread"].pc = pc]
ManualGoto(pc) == worker' = [worker EXCEPT !["manual_ctrl_thread"].pc = pc]

\* an exception leaves start_study and Worker.run, which catch nothing: the
\* thread ends with the lines after the raise not run
StudyRaises(how) ==
    /\ worker' = [worker EXCEPT !["run_study_thread"] = Parked]
    /\ threadpool' = WorkerDone("run_study_thread")
    /\ run' = [run EXCEPT !.ended = how]

(* start_study *)
\* line 130: toggle_controls(True)
start_study_toggle ==
    /\ StudyAt("toggle")
    /\ controls_disabled' = TRUE
    /\ StudyGoto("eqpt_list")
    /\ UNCHANGED <<threadpool, listWidget, status, bound, laser_item, eqpt, gui,
                   estop, run, nclicks, compVars, calVars, formVars, plannerVars, gasVars>>

\* lines 131-138: expt_list and eqpt_list; self.gc_connector,
\* self.laser_controller, self.gas_controller and self.heater are read, and
\* an attribute init_equipment never bound raises AttributeError
start_study_eqpt_list ==
    /\ StudyAt("eqpt_list")
    /\ IF Equipment \subseteq bound
       THEN /\ worker' = [worker EXCEPT !["run_study_thread"] =
                             [pc |-> "loop", expt |-> 1, step |-> 0]]
            /\ UNCHANGED <<threadpool, run>>
       ELSE StudyRaises("AttributeError")
    /\ UNCHANGED <<controls_disabled, listWidget, status, bound, laser_item,
                   eqpt, gui, estop, nclicks, compVars, calVars, formVars, plannerVars, gasVars>>

\* mutant of start_study_loop: self.shut_down() is left out after the loop
start_study_loop_NoShutDown ==
    /\ StudyAt("loop")
    /\ LET w == worker["run_study_thread"]
       IN  IF w.expt <= Len(listWidget)
           THEN worker' = [worker EXCEPT !["run_study_thread"] =
                              [w EXCEPT !.pc = "push", !.step = 1]]
           ELSE StudyGoto("untoggle")
    /\ UNCHANGED <<threadpool, controls_disabled, listWidget, status, bound,
                   laser_item, eqpt, gui, estop, run, nclicks,
                   compVars, calVars, formVars, plannerVars, gasVars>>

\* lines 140-147: the next experiment of the list, if any, and the call of
\* its run_experiment
start_study_loop ==
    /\ StudyAt("loop")
    /\ LET w == worker["run_study_thread"]
       IN  IF w.expt <= Len(listWidget)
           THEN worker' = [worker EXCEPT !["run_study_thread"] =
                              [w EXCEPT !.pc = "push", !.step = 1]]
           ELSE StudyGoto("shut_down")
    /\ UNCHANGED <<threadpool, controls_disabled, listWidget, status, bound,
                   laser_item, eqpt, gui, estop, run, nclicks,
                   compVars, calVars, formVars, plannerVars, gasVars>>

\* Experiment.run_experiment, one step: the setpoints of the step are pushed
\* to every connected device; ghost: the temperature sent to the heater
run_experiment_push ==
    /\ StudyAt("push")
    /\ eqpt' = [d \in Devices |-> IF d \in Connected THEN "setpoint" ELSE eqpt[d]]
    /\ LET w == worker["run_study_thread"]
       IN  run' = [run EXCEPT
                     !.steps = @ + 1,
                     !.heater = IF status["heater"]
                                THEN Append(@, listWidget[w.expt][w.step]) ELSE @]
    /\ StudyGoto("acquire")
    /\ UNCHANGED <<threadpool, controls_disabled, listWidget, status, bound,
                   laser_item, gui, estop, nclicks,
                   compVars, calVars, formVars, plannerVars, gasVars>>

\* Experiment.run_experiment, one step: a command of the step raises (an
\* equipment exception) and the exception leaves run_experiment
run_experiment_raises ==
    /\ StudyAt("push")
    /\ Connected # {}
    /\ StudyRaises("equipment")
    /\ UNCHANGED <<controls_disabled, listWidget, status, bound, laser_item,
                   eqpt, gui, estop, nclicks, compVars, calVars, formVars, plannerVars, gasVars>>

\* Experiment.run_experiment, one step: the wait for the steady state and the
\* acquisition of the chromatograms, then the next step or the return
run_experiment_acquire ==
    /\ StudyAt("acquire")
    /\ LET w == worker["run_study_thread"]
       IN  IF w.step < Len(listWidget[w.expt])
           THEN worker' = [worker EXCEPT !["run_study_thread"] =
                              [w EXCEPT !.pc = "push", !.step = @ + 1]]
           ELSE worker' = [worker EXCEPT !["run_study_thread"] =
                              [pc |-> "loop", expt |-> w.expt + 1, step |-> 0]]
    /\ UNCHANGED <<threadpool, controls_disabled, listWidget, status, bound,
                   laser_item, eqpt, gui, estop, run, nclicks,
                   compVars, calVars, formVars, plannerVars, gasVars>>

\* line 148: self.shut_down()
start_study_shut_down ==
    /\ StudyAt("shut_down")
    /\ eqpt' = AfterShutDown
    /\ estop' = CountShutDown
    /\ run' = [run EXCEPT !.shut_downs = @ + 1]
    /\ StudyGoto("untoggle")
    /\ UNCHANGED <<threadpool, controls_disabled, listWidget, status, bound,
                   laser_item, gui, nclicks, compVars, calVars, formVars, plannerVars, gasVars>>

\* line 149: toggle_controls(False); then Worker.run returns
start_study_untoggle ==
    /\ StudyAt("untoggle")
    /\ controls_disabled' = FALSE
    /\ worker' = [worker EXCEPT !["run_study_thread"] = Parked]
    /\ threadpool' = WorkerDone("run_study_thread")
    /\ run' = [run EXCEPT !.ended = "returned"]
    /\ UNCHANGED <<listWidget, status, bound, laser_item, eqpt, gui, estop,
                   nclicks, compVars, calVars, formVars, plannerVars, gasVars>>

(* manual_ctrl_eqpt *)
\* line 1068: toggle_controls(True)
manual_ctrl_eqpt_toggle ==
    /\ ManualAt("toggle")
    /\ controls_disabled' = TRUE
    /\ ManualGoto("set")
    /\ UNCHANGED <<threadpool, listWidget, status, bound, laser_item, eqpt, gui,
                   estop, run, nclicks, compVars, calVars, formVars, plannerVars, gasVars>>

\* mutant of manual_ctrl_eqpt_set: the status boxes are not looked at
manual_ctrl_eqpt_set_Unchecked ==
    /\ ManualAt("set")
    /\ eqpt' = [d \in Devices |-> "setpoint"]
    /\ ManualGoto("untoggle")
    /\ UNCHANGED <<threadpool, controls_disabled, listWidget, status, bound,
                   laser_item, gui, estop, run, nclicks,
                   compVars, calVars, formVars, plannerVars, gasVars>>

\* lines 1079-1159: the setpoints of the devices whose status box is checked
manual_ctrl_eqpt_set ==
    /\ ManualAt("set")
    /\ eqpt' = [d \in Devices |-> IF d \in Connected THEN "setpoint" ELSE eqpt[d]]
    /\ ManualGoto("untoggle")
    /\ UNCHANGED <<threadpool, controls_disabled, listWidget, status, bound,
                   laser_item, gui, estop, run, nclicks,
                   compVars, calVars, formVars, plannerVars, gasVars>>

\* line 1162: toggle_controls(False); then Worker.run returns
manual_ctrl_eqpt_untoggle ==
    /\ ManualAt("untoggle")
    /\ controls_disabled' = FALSE
    /\ worker' = [worker EXCEPT !["manual_ctrl_thread"] = Parked]
    /\ threadpool' = WorkerDone("manual_ctrl_thread")
    /\ UNCHANGED <<listWidget, status, bound, laser_item, eqpt, gui, estop, run,
                   nclicks, compVars, calVars, formVars, plannerVars, gasVars>>

\* emergency_stop: cancel and clear take the runnables that wait in the
\* queue; a runnable that has a thread is not touched; then self.shut_down()
emergency_stop ==
    /\ GuiIdle
    /\ threadpool' = [threadpool EXCEPT !.queue = <<>>]
    /\ eqpt' = AfterShutDown
    /\ estop' = IF Running("run_study_thread")
                THEN [stopped |-> TRUE, shut_downs |-> 1]
                ELSE estop
    /\ UNCHANGED <<worker, controls_disabled, listWidget, status, bound,
                   laser_item, gui, run, nclicks,
                   compVars, calVars, formVars, plannerVars, gasVars>>

\* MainWindow.__init__ reaches init_equipment: the status boxes are as the
\* form loads them, unchecked
InitStudy ==
    /\ threadpool \in [queue : {<<>>}, active : {{}}, maxThreadCount : {1, 2}]
    /\ worker = [r \in Runnables |-> Parked]
    /\ controls_disabled = FALSE
    /\ listWidget \in StudyLists
    /\ status = [d \in Equipment |-> FALSE]
    /\ bound = {}
    /\ laser_item = FALSE
    /\ eqpt = [d \in Devices |-> "idle"]
    /\ gui \in [pc : {"init_gc"}, oc : ConnectOutcomes]
    /\ estop = [stopped |-> FALSE, shut_downs |-> 0]
    /\ run = NoRun
    /\ nclicks = 0

NextStudy ==
    \/ init_equipment_gc
    \/ init_equipment_gas
    \/ init_equipment_heater
    \/ init_equipment_laser
    \/ init_equipment_limits
    \/ ClickStart
    \/ ClickApply
    \/ PoolTake
    \/ start_study_toggle
    \/ start_study_eqpt_list
    \/ start_study_loop
    \/ run_experiment_push
    \/ run_experiment_raises
    \/ run_experiment_acquire
    \/ start_study_shut_down
    \/ start_study_untoggle
    \/ manual_ctrl_eqpt_toggle
    \/ manual_ctrl_eqpt_set
    \/ manual_ctrl_eqpt_untoggle
    \/ emergency_stop

(***************************************************************************)
(* The GUI thread and a worker inside Gas_System.  The GUI thread is t1: it *)
(* runs emergency_stop and the timer slot update_eqpt_status.  The pool     *)
(* thread is t2: it runs manual_ctrl_eqpt.  Their calls of Gas_System are   *)
(* followed step by step; the heater and the lasers stay one command each.  *)
(***************************************************************************)
GuiThread == "t1"
PoolThread == "t2"

\* the values of the manual control tab when Apply is clicked
ManualGasLists == SharedGasLists
ManualCompLists == {Frac(50, 20, 30, 0), Pct(10, 10, 10, 10)}

\* the call thread t made has returned
CallReturned(t) == stack[t] = <<>> /\ outcome[t] = "returned"

\* the call thread t made was left by an exception
CallRaised(t) == stack[t] = <<>> /\ outcome[t] \notin {"none", "running", "returned"}

\* lines 1079-1080: if self.gas_Status.isChecked(): set_gasses(gas_list)
manual_ctrl_eqpt_set_gasses ==
    /\ ManualAt("set")
    /\ IF status["gas"]
       THEN /\ \E gas_list \in ManualGasLists :
                 Begin(PoolThread, Request("set_gasses", <<>>, gas_list, 0),
                       <<[Frame("set_gasses", "wait") EXCEPT !.gl = gas_list]>>,
                       "running")
            /\ ManualGoto("set_gasses")
       ELSE /\ ManualGoto("set_flows")
            /\ UNCHANGED <<stack, req, outcome, issued, ncall, started, ahead>>
    /\ UNCHANGED <<is_busy, mfc, threadpool, controls_disabled, listWidget, status,
                   bound, laser_item, eqpt, gui, estop, run, nclicks,
                   compVars, calVars, formVars, plannerVars>>

\* line 1082: self.gas_controller.set_flows(comp_list, tot_flow)
manual_ctrl_eqpt_set_flows ==
    /\ ManualAt("set_gasses")
    /\ CallReturned(PoolThread)
    /\ \E comp_list \in ManualCompLists, tot_flow \in TotFlows :
          LET r == check_comp_total(comp_list)
          IN  Begin(PoolThread, Request("set_flows", comp_list, <<>>, tot_flow),
                    IF r.raised THEN <<>>
                    ELSE <<[Frame("set_flows", "wait") EXCEPT !.comp = r.list,
                                                             !.flow = tot_flow]>>,
                    IF r.raised THEN "AttributeError" ELSE "running")
    /\ ManualGoto("set_flows")
    /\ UNCHANGED <<is_busy, mfc, threadpool, controls_disabled, listWidget, status,
                   bound, laser_item, eqpt, gui, estop, run, nclicks,
                   compVars, calVars, formVars, plannerVars>>

\* lines 1085-1159: the laser and the heater, when their status box is checked
manual_ctrl_eqpt_rest ==
    /\ ManualAt("set_flows")
    /\ status["gas"] => CallReturned(PoolThread)
    /\ eqpt' = [d \in Devices |->
                   IF d \in Connected
                   THEN (IF d = "gas" THEN eqpt[d] ELSE "setpoint") ELSE eqpt[d]]
    /\ ManualGoto("untoggle")
    /\ UNCHANGED <<threadpool, controls_disabled, listWidget, status, bound,
                   laser_item, gui, estop, run, nclicks,
                   compVars, calVars, formVars, plannerVars, gasVars>>

\* an exception of set_gasses or set_flows leaves manual_ctrl_eqpt and
\* Worker.run, which catch nothing: the thread ends
manual_ctrl_eqpt_raises ==
    /\ ManualAt("set_gasses") \/ ManualAt("set_flows")
    /\ status["gas"]
    /\ CallRaised(PoolThread)
    /\ worker' = [worker EXCEPT !["manual_ctrl_thread"] = Parked]
    /\ threadpool' = WorkerDone("manual_ctrl_thread")
    /\ UNCHANGED <<controls_disabled, listWidget, status, bound, laser_item,
                   eqpt, gui, estop, run, nclicks,
                   compVars, calVars, formVars, plannerVars, gasVars>>

\* emergencyStop.clicked, lines 1253-1257 up to the first call shut_down
\* makes: the queue of the pool is emptied, a runnable that has a thread is
\* not touched, and self.gas_controller.shut_down() is called
emergency_stop_call ==
    /\ GuiIdle
    /\ ncall[GuiThread] < MaxCalls
    /\ threadpool' = [threadpool EXCEPT !.queue = <<>>]
    /\ IF status["gas"]
       THEN Begin(GuiThread, Request("shut_down", <<>>, <<>>, 0),
                  <<Frame("shut_down", "wait")>>, "running")
       ELSE UNCHANGED <<stack, req, outcome, issued, ncall, started, ahead>>
    /\ gui' = [gui EXCEPT !.pc = "emergency_stop"]
    /\ UNCHANGED <<is_busy, mfc, worker, controls_disabled, listWidget, status,
                   bound, laser_item, eqpt, estop, run, nclicks,
                   compVars, calVars, formVars, plannerVars>>

\* the rest of MainWindow.shut_down, lines 1239-1247, and the return of
\* emergency_stop
emergency_stop_return ==
    /\ gui.pc = "emergency_stop"
    /\ status["gas"] => CallReturned(GuiThread)
    /\ eqpt' = AfterShutDown
    /\ gui' = [gui EXCEPT !.pc = "idle"]
    /\ UNCHANGED <<threadpool, worker, controls_disabled, listWidget, status,
                   bound, laser_item, estop, run, nclicks,
                   compVars, calVars, formVars, plannerVars, gasVars>>

\* timer.timeout, every 500 ms: update_eqpt_status, lines 989-990
update_eqpt_status_call ==
    /\ GuiIdle
    /\ ncall[GuiThread] < MaxCalls
    /\ status["gas"]
    /\ Begin(GuiThread, Request("read_flows", <<>>, <<>>, 0),
             <<Frame("read_flows", "wait")>>, "running")
    /\ gui' = [gui EXCEPT !.pc = "update_eqpt_status"]
    /\ UNCHANGED <<is_busy, mfc, threadpool, worker, controls_disabled, listWidget,
                   status, bound, laser_item, eqpt, estop, run, nclicks,
                   compVars, calVars, formVars, plannerVars>>

\* read_flows is over, by its return or by an exception: the slot is over
update_eqpt_status_return ==
    /\ gui.pc = "update_eqpt_status"
    /\ stack[GuiThread] = <<>>
    /\ gui' = [gui EXCEPT !.pc = "idle"]
    /\ UNCHANGED <<threadpool, worker, controls_disabled, listWidget, status,
                   bound, laser_item, eqpt, estop, run, nclicks,
                   compVars, calVars, formVars, plannerVars, gasVars>>

\* one step of thread t inside the Gas_System method it called: the steps
\* that compute no flow, and those of set_flows and set_gasE that do
PlainStep(t) ==
    \/ WaitBusy(t)
    \/ SetBusy(t)
    \/ ClearBusy(t)
    \/ set_gasses_body(t)
    \/ set_gasE_get(t)
    \/ set_gasE_select(t)
    \/ read_body(t)
    \/ shut_down_get(t)
    \/ shut_down_set(t)

FlowStep(t) ==
    \/ set_flows_body(t)
    \/ set_flows_call_set_gasE(t)
    \/ set_gasE_mix(t)

\* the steps of the GUI thread
GuiRuns ==
    \/ PlainStep(GuiThread)
    \/ emergency_stop_return
    \/ update_eqpt_status_return

\* the steps of the pool thread outside set_flows, and those of set_flows
\* (Apply always finds a free thread here: the queue of the pool stays empty)
WorkerRuns ==
    \/ PlainStep(PoolThread)
    \/ manual_ctrl_eqpt_toggle
    \/ manual_ctrl_eqpt_set_gasses
    \/ manual_ctrl_eqpt_rest
    \/ manual_ctrl_eqpt_raises
    \/ manual_ctrl_eqpt_untoggle

WorkerSetsFlows ==
    \/ manual_ctrl_eqpt_set_flows
    \/ FlowStep(PoolThread)

NextStop ==
    \/ ClickApply
    \/ emergency_stop_call
    \/ update_eqpt_status_call
    \/ GuiRuns
    \/ WorkerRuns
    \/ WorkerSetsFlows
    \/ CommandRaises(PoolThread)

(***************************************************************************)
(* analyze_cal_data (photoreactor_code/data_analysis/gc_analysis.py): the  *)
(* loop that fits one line per chemical of the calibration file.  A         *)
(* chemical is named by its place in calchemIDs; the result of a fit is     *)
(* named by the chemical whose data it was computed from.                   *)
(***************************************************************************)
MaxChems == 4

calchemIDs == 1..MaxChems

\* np.polyfit returns the line of the data it is given, or raises LinAlgError
FitResults == {"line a", "line b"}
PolyfitOutcomes == FitResults \cup {"LinAlgError"}

\* m, b, err_m, err_b as the fit of a chemical binds them
FitOf(chemical) == [of |-> chemical, fit |-> polyfit[chemical]]

\* the locals are not bound before the first fit that succeeds
Unbound == [of |-> 0, fit |-> "unbound"]

\* new_calibration = calDF.copy(): the columns hold what the file held
FromCalDF == [of |-> 0, fit |-> "calDF"]

\* lines 103-144, one turn of the loop: the try block binds m, b, err_m and
\* err_b; except LinAlgError writes the label 'Bad Fit'; then the row of the
\* chemical is assigned [m, err_m, b, err_b], which raises UnboundLocalError
\* while no fit has succeeded
analyze_cal_data_fit ==
    /\ analysis = "loop"
    /\ chem_num <= MaxChems
    /\ fitted' = IF polyfit[chem_num] = "LinAlgError" THEN fitted ELSE FitOf(chem_num)
    /\ IF fitted' = Unbound
       THEN /\ analysis' = "UnboundLocalError"
            /\ UNCHANGED <<new_calibration, chem_num>>
       ELSE /\ new_calibration' = [new_calibration EXCEPT ![chem_num] = fitted']
            /\ chem_num' = chem_num + 1
            /\ UNCHANGED analysis
    /\ UNCHANGED <<polyfit, compVars, plannerVars, gasVars, studyVars, formVars>>

\* lines 146-167: the figures are saved and new_calibration is written to
\* calibration.csv
analyze_cal_data_save ==
    /\ analysis = "loop"
    /\ chem_num = MaxChems + 1
    /\ analysis' = "saved"
    /\ UNCHANGED <<polyfit, new_calibration, fitted, chem_num,
                   compVars, plannerVars, gasVars, studyVars, formVars>>

InitCalWith(outcomes) ==
    /\ polyfit = outcomes
    /\ new_calibration = [c \in calchemIDs |-> FromCalDF]
    /\ fitted = Unbound
    /\ chem_num = 1
    /\ analysis = "loop"

InitCal == \E outcomes \in [calchemIDs -> PolyfitOutcomes] : InitCalWith(outcomes)

NextCal ==
    \/ analyze_cal_data_fit
    \/ analyze_cal_data_save

(***************************************************************************)
(* display_expt and the slot update_expt: the experiments of listWidget,   *)
(* the widgets of the design tab and update_flag.  A widget emits its      *)
(* change signal, which runs update_expt at once on the same thread, when  *)
(* the value set differs from the value it holds.  Compositions are in     *)
(* hundredths as in the planner.                                           *)
(***************************************************************************)
MaxEvents == 3

Items == 1..2
ExptTypes == {"Undefined", "temp_sweep", "comp_sweep"}

\* the attribute that expt.ind_var names for each experiment type
IndVarName(t) ==
    CASE t = "temp_sweep" -> "temp"
      [] t \in {"comp_sweep", "calibration"} -> "gas_comp"
      [] OTHER -> "Undefined"

Expt(t, temp, comp) == [expt_type |-> t, temp |-> temp, gas_comp |-> comp]

SweepRow(role, mult, start, stop, step) ==
    [role |-> role, mult |-> mult, start |-> start, stop |-> stop, step |-> step]

\* experiments as add_expt and update_expt leave them: a new one, a
\* temperature sweep, and composition sweeps of five and of two steps as
\* the planner stores them
StoredExpts ==
    {Expt("Undefined", <<0>>, <<<<0, 0, 0, 0>>>>),
     Expt("temp_sweep", <<25, 50, 75>>, <<<<100, 0, 0, 0>>>>),
     Expt("comp_sweep", <<25>>,
          SweepPlan(<<SweepRow("Ind. Variable", 0, 0, 101, 25), SweepRow("Fixed", 0, 0, 0, 0),
                      SweepRow("Fill", 0, 0, 0, 0), SweepRow("Fixed", 0, 0, 0, 0)>>).matrix),
     Expt("comp_sweep", <<50>>,
          SweepPlan(<<SweepRow("Fill", 0, 0, 0, 0), SweepRow("Ind. Variable", 0, 0, 25, 25),
                      SweepRow("Multiple", 1, 0, 0, 0), SweepRow("Fixed", 0, 25, 0, 0)>>).matrix)}

\* the widgets as the form loads them
BlankForm ==
    [expt_types |-> "Undefined", setTemp |-> 0, setGasComp |-> <<0, 0, 0, 0>>,
     sweep |-> [i \in Rows |-> BlankRow],
     IndVar |-> [start |-> 0, stop |-> 0, step |-> 0]]

\* setValue / setCurrentText of one widget: which widget and the value
SetWidget(w, i, col, v) == [w |-> w, i |-> i, col |-> col, v |-> v]

Put(f, a) ==
    CASE a.w = "expt_types" -> [f EXCEPT !.expt_types = a.v]
      [] a.w = "setTemp"    -> [f EXCEPT !.setTemp = a.v]
      [] a.w = "setGasComp" -> [f EXCEPT !.setGasComp[a.i] = a.v]
      [] a.w = "sweep"      -> [f EXCEPT !.sweep[a.i][a.col] = a.v]
      [] OTHER              -> [f EXCEPT !.IndVar[a.col] = a.v]

\* update_ind_var(expt) with the widgets f: the planner for a composition
\* sweep; for the other types the range of the IndVar boxes
update_ind_var_expt(f, e) ==
    IF e.expt_type \in {"comp_sweep", "calibration"}
    THEN [e EXCEPT !.gas_comp = update_ind_var(f.sweep, e.gas_comp, "blank").gas_comp]
    ELSE IF f.IndVar.stop > f.IndVar.start /\ f.IndVar.step > 0
    THEN [e EXCEPT ![IndVarName(e.expt_type)] =
                       arange(f.IndVar.start, f.IndVar.stop + 1, f.IndVar.step)]
    ELSE e

\* the body of update_expt past its test of update_flag, on experiment e
\* with the widgets f
update_expt_body(f, e) ==
    IF f.expt_types = "Undefined" THEN [form |-> f, expt |-> e]
    ELSE LET e1 == [e EXCEPT !.expt_type = f.expt_types,
                             !.temp[1] = f.setTemp,
                             !.gas_comp[1] = f.setGasComp]
             f1 == [f EXCEPT !.sweep = update_ind_var_grid(f.sweep)]
         IN  [form |-> f1, expt |-> update_ind_var_expt(f1, e1)]

\* one widget is set while the current item is item and update_flag is flag:
\* st holds the widgets, the experiments and the count of signals emitted
Fire(st, a, item, flag) ==
    LET f == Put(st.form, a)
    IN  IF f = st.form THEN st
        ELSE IF item # 0 /\ flag
        THEN LET r == update_expt_body(f, st.expts[item])
             IN  [form |-> r.form, expts |-> [st.expts EXCEPT ![item] = r.expt],
                  fired |-> st.fired + 1]
        ELSE [form |-> f, expts |-> st.expts, fired |-> st.fired + 1]

RECURSIVE FireAll(_, _, _, _)
FireAll(st, as, item, flag) ==
    IF as = <<>> THEN st
    ELSE FireAll(Fire(st, Head(as), item, flag), Tail(as), item, flag)

DisplayAt(pc) == shown.pc = pc

\* display_expt sets the widgets as in order and goes on to next
Populate(as, next) ==
    LET st == FireAll([form |-> form, expts |-> expts, fired |-> shown.fired],
                      as, currentItem, update_flag)
    IN  /\ form' = st.form
        /\ expts' = st.expts
        /\ shown' = [pc |-> next, fired |-> st.fired]
        /\ UNCHANGED <<currentItem, update_flag, nevents,
                       compVars, calVars, plannerVars, gasVars, studyVars>>

\* mutant of display_expt_begin: update_flag is not set to False
display_expt_begin_FlagLeftSet(i) ==
    /\ DisplayAt("idle")
    /\ nevents < MaxEvents
    /\ nevents' = nevents + 1
    /\ currentItem' = i
    /\ shown' = [pc |-> "expt_types", fired |-> 0]
    /\ UNCHANGED <<update_flag, expts, form, compVars, calVars, plannerVars, gasVars, studyVars>>

\* listWidget.itemClicked on item i, which is the current item by then:
\* display_expt sets update_flag to False
display_expt_begin(i) ==
    /\ DisplayAt("idle")
    /\ nevents < MaxEvents
    /\ nevents' = nevents + 1
    /\ currentItem' = i
    /\ update_flag' = FALSE
    /\ shown' = [pc |-> "expt_types", fired |-> 0]
    /\ UNCHANGED <<expts, form, compVars, calVars, plannerVars, gasVars, studyVars>>

\* self.expt_types.setCurrentText(expt.expt_type)
display_expt_type ==
    /\ DisplayAt("expt_types")
    /\ Populate(<<SetWidget("expt_types", 0, "", expts[currentItem].expt_type)>>,
                "ind_var")

Min(S) == CHOOSE x \in S : \A y \in S : x <= y
Max(S) == CHOOSE x \in S : \A y \in S : x >= y
Range(q) == {q[k] : k \in 1..Len(q)}

\* a spin box of the composition grid keeps a value set within 0..101
Clamp(v) == IF v < 0 THEN 0 ELSE IF v > 101 THEN 101 ELSE v

\* the widgets of grid row i as display_expt sets them from values[i]
ShowRow(i, v) ==
    <<SetWidget("sweep", i, "mult", 0),
      SetWidget("sweep", i, "role", "-"),
      SetWidget("sweep", i, "start", Clamp(Min(Range(v)))),
      SetWidget("sweep", i, "stop", Clamp(Max(Range(v)))),
      SetWidget("sweep", i, "step", Clamp(v[2] - v[1]))>>

RECURSIVE ShowRows(_, _)
ShowRows(values, n) ==
    IF n = 0 THEN <<>> ELSE ShowRows(values, n - 1) \o ShowRow(n, values[n + 1])

\* the branch on expt.ind_var: for a stored composition sweep the loop over
\* the grid rows reads values[i] for i = 1 .. 4 and raises IndexError at the
\* first i the sweep has no step for
display_expt_ind_var ==
    /\ DisplayAt("ind_var")
    /\ LET e      == expts[currentItem]
           name   == IndVarName(e.expt_type)
       IN  IF name = "Undefined"
           THEN Populate(<<SetWidget("IndVar", 0, "start", 0),
                           SetWidget("IndVar", 0, "stop", 0),
                           SetWidget("IndVar", 0, "step", 0)>>, "params")
           ELSE LET values == e[name]
                IN  IF Len(values) <= 1 THEN Populate(<<>>, "params")
                    ELSE IF name = "gas_comp"
                    THEN IF Len(values) > NumRows
                         THEN Populate(ShowRows(values, NumRows), "params")
                         ELSE Populate(ShowRows(values, Len(values) - 1), "raised")
                    ELSE Populate(<<SetWidget("IndVar", 0, "start", Min(Range(values))),
                                    SetWidget("IndVar", 0, "stop", Max(Range(values))),
                                    SetWidget("IndVar", 0, "step", values[2] - values[1])>>,
                                  "params")

\* self.setTemp.setValue(expt.temp[0]) and the boxes that follow it
display_expt_params ==
    /\ DisplayAt("params")
    /\ Populate(<<SetWidget("setTemp", 0, "", expts[currentItem].temp[1])>>, "comp")

\* setGasAComp .. setGasDComp
display_expt_comp ==
    /\ DisplayAt("comp")
    /\ Populate([i \in Rows |->
                    SetWidget("setGasComp", i, "", expts[currentItem].gas_comp[1][i])],
                "finish")

\* update_ind_var_grid(), which returns at once unless update_flag is set;
\* then update_flag = True and display_expt returns
display_expt_finish ==
    /\ DisplayAt("finish")
    /\ form' = IF currentItem # 0 /\ update_flag
               THEN [form EXCEPT !.sweep = update_ind_var_grid(form.sweep)] ELSE form
    /\ update_flag' = TRUE
    /\ shown' = [shown EXCEPT !.pc = "idle"]
    /\ UNCHANGED <<expts, currentItem, nevents,
                   compVars, calVars, plannerVars, gasVars, studyVars>>

\* the IndexError leaves display_expt: the slot is over, update_flag is as
\* it was, and the event loop goes on
display_expt_raised ==
    /\ DisplayAt("raised")
    /\ shown' = [shown EXCEPT !.pc = "idle"]
    /\ UNCHANGED <<expts, currentItem, update_flag, form, nevents,
                   compVars, calVars, plannerVars, gasVars, studyVars>>

\* what the user changes in the design tab
ComboEdits ==
    {SetWidget("expt_types", 0, "", t) : t \in ExptTypes}
    \cup {SetWidget("sweep", 1, "role", "Fill"),
          SetWidget("sweep", 2, "role", "Ind. Variable")}

SpinEdits ==
    {SetWidget("setTemp", 0, "", 50), SetWidget("setGasComp", 1, "", 25),
     SetWidget("IndVar", 0, "stop", 75), SetWidget("IndVar", 0, "step", 25),
     SetWidget("sweep", 2, "stop", 25)}

\* the user changes one widget: its signal runs update_expt
update_expt_signal(a) ==
    /\ DisplayAt("idle")
    /\ nevents < MaxEvents
    /\ Put(form, a) # form
    /\ nevents' = nevents + 1
    /\ LET st == Fire([form |-> form, expts |-> expts, fired |-> 0], a,
                      currentItem, update_flag)
       IN  form' = st.form /\ expts' = st.expts
    /\ UNCHANGED <<currentItem, update_flag, shown,
                   compVars, calVars, plannerVars, gasVars, studyVars>>

\* MainWindow.__init__ is over: update_flag is True if change_laser ran
InitForm ==
    /\ expts \in [Items -> StoredExpts]
    /\ currentItem = 0
    /\ update_flag \in BOOLEAN
    /\ form = BlankForm
    /\ shown = [pc |-> "idle", fired |-> 0]
    /\ nevents = 0

NextForm ==
    \/ \E i \in Items : display_expt_begin(i)
    \/ display_expt_type
    \/ display_expt_ind_var
    \/ display_expt_params
    \/ display_expt_comp
    \/ display_expt_finish
    \/ display_expt_raised
    \/ \E a \in ComboEdits : update_expt_signal(a)
    \/ \E a \in SpinEdits : update_expt_signal(a)

(***************************************************************************)
(* Specifications.                                                         *)
(***************************************************************************)
IdleComp == cc_in = [i \in 1..4 |-> FxZero]
            /\ cc_out = [raised |-> FALSE, list |-> cc_in] /\ cc_done = FALSE

IdlePlanner ==
    /\ grid = [i \in Rows |-> BlankRow]
    /\ designComp = [i \in Rows |-> 0]
    /\ expt_type = "comp_sweep"
    /\ gas_comp = <<[i \in Rows |-> 0]>>
    /\ planner = "none" /\ plot = "blank" /\ edits = 0

IdleGas == InitGasWith(<<"Ar", "H2", "N2", "CO2">>)

IdleCal == InitCalWith([c \in calchemIDs |-> "line a"])

IdleForm ==
    /\ expts = [i \in Items |-> Expt("Undefined", <<0>>, <<<<0, 0, 0, 0>>>>)]
    /\ currentItem = 0
    /\ update_flag = FALSE
    /\ form = BlankForm
    /\ shown = [pc |-> "idle", fired |-> 0]
    /\ nevents = 0

\* each specification exercises one part of the program and holds the rest
\* of the state as it is after construction
IdleStudy ==
    /\ threadpool = [queue |-> <<>>, active |-> {}, maxThreadCount |-> 2]
    /\ worker = [r \in Runnables |-> Parked]
    /\ controls_disabled = FALSE
    /\ listWidget = <<>>
    /\ status = [d \in Equipment |-> TRUE]
    /\ bound = Equipment
    /\ laser_item = TRUE
    /\ eqpt = [d \in Devices |-> "idle"]
    /\ gui = [pc |-> "idle", oc |-> [d \in Equipment |-> "ok"]]
    /\ estop = [stopped |-> FALSE, shut_downs |-> 0]
    /\ run = NoRun
    /\ nclicks = 0

InitCompOnly == InitComp /\ IdlePlanner /\ IdleGas /\ IdleStudy /\ IdleCal /\ IdleForm
InitPlannerOnly == IdleComp /\ InitPlanner /\ IdleGas /\ IdleStudy /\ IdleCal /\ IdleForm
InitGasOnly == IdleComp /\ IdlePlanner /\ InitGas /\ IdleStudy /\ IdleCal /\ IdleForm
InitGasShared == IdleComp /\ IdlePlanner /\ IdleGas /\ IdleStudy /\ IdleCal /\ IdleForm
InitStudyOnly == IdleComp /\ IdlePlanner /\ IdleGas /\ InitStudy /\ IdleCal /\ IdleForm
InitStopOnly == IdleComp /\ IdlePlanner /\ InitGas /\ IdleStudy /\ IdleCal /\ IdleForm
InitCalOnly == IdleComp /\ IdlePlanner /\ IdleGas /\ IdleStudy /\ InitCal /\ IdleForm
InitFormOnly == IdleComp /\ IdlePlanner /\ IdleGas /\ IdleStudy /\ IdleCal /\ InitForm

SpecComp == InitCompOnly /\ [][CallCheckCompTotal]_vars
SpecPlanner == InitPlannerOnly /\ [][NextPlanner]_vars
SpecGas == InitGasShared /\ [][NextGas]_vars
SpecGasSeq == InitGasOnly /\ [][NextGasSeq]_vars
SpecStudy == InitStudyOnly /\ [][NextStudy]_vars
SpecStop == InitStopOnly /\ [][NextStop]_vars
SpecCal == InitCalOnly /\ [][NextCal]_vars
SpecForm == InitFormOnly /\ [][NextForm]_vars

\* the operating system lets a thread that can take a step take one; the
\* condition is stated for the GUI thread and for a worker outside set_flows,
\* which is where the worker stands in the behaviours C22 is checked on
SpecStopFair == SpecStop /\ WF_vars(GuiRuns) /\ WF_vars(WorkerRuns)

(***************************************************************************)
(* Properties of the composition-sweep planner.                            *)
(***************************************************************************)
RowSum(row) == row[1] + row[2] + row[3] + row[4]

\* the last edit was handled by update_expt
Handled == edits' = edits + 1

\* the roles and the range of g pass the planner's checks and the fill is
\* negative at some sweep value x of the independent variable
NegativeFill(g) ==
    /\ RowsOfRole(g, "-") = {}
    /\ Cardinality(RowsOfRole(g, "Fill")) = 1
    /\ Cardinality(RowsOfRole(g, "Ind. Variable")) = 1
    /\ \E iv \in RowsOfRole(g, "Ind. Variable") :
          /\ g[iv].step > 0
          /\ \E x \in g[iv].start .. g[iv].stop :
                /\ (x - g[iv].start) % g[iv].step = 0
                /\ x + SumOver([i \in Rows |-> x * g[i].mult], RowsOfRole(g, "Multiple"))
                     + SumOver([i \in Rows |-> g[i].start], RowsOfRole(g, "Fixed")) > 100

\* expt.gas_comp holds no sweep (display_expt: has_data = len(values) > 1)
NoSweep(m) == Len(m) <= 1

\* C6: whenever update_ind_var accepts the grid, the matrix it stores has
\* one row of four entries per sweep step and every row sums to 1
C6_RowsSumToOne ==
    planner = "stored" =>
        /\ Len(gas_comp) >= 1
        /\ \A k \in 1..Len(gas_comp) :
              DOMAIN gas_comp[k] = Rows /\ RowSum(gas_comp[k]) = 100

C6_Witness ==
    /\ edits > 0
    /\ planner = "stored"
    /\ Len(gas_comp) >= 2
    /\ \E i, j \in Rows :
          /\ grid[i].role = "Multiple" /\ grid[i].mult > 0
          /\ grid[j].role = "Fixed" /\ grid[j].start > 0

\* C7: when the fill is negative at some sweep index, update_ind_var stores
\* nothing: the call ends rejected and expt.gas_comp is what update_expt
\* passed to it (the attribute with the static composition in its row 0)
C7_NegativeFillRejected ==
    [][(Handled /\ NegativeFill(grid')) =>
          /\ planner' # "stored"
          /\ gas_comp' = [gas_comp EXCEPT ![1] = [i \in Rows |-> designComp'[i] * 100]]]_vars

C7_Witness ==
    /\ edits > 0
    /\ planner = "overflow"
    /\ NegativeFill(grid)
    /\ \E k \in 1..Len(gas_comp) : \A i \in Rows : gas_comp[k][i] >= 0

\* C8: after every handled change of a row, expt.gas_comp is the matrix
\* built from the current rows or holds no sweep
C8_StoredIsCurrentOrInvalidated ==
    [][Handled =>
          \/ SweepPlan(grid').status = "stored" /\ gas_comp' = SweepPlan(grid').matrix
          \/ NoSweep(gas_comp')]_vars


\* the roles of g pass the first two checks of the planner
RolesPass(g) ==
    /\ RowsOfRole(g, "-") = {}
    /\ Cardinality(RowsOfRole(g, "Fill")) = 1
    /\ Cardinality(RowsOfRole(g, "Ind. Variable")) = 1

IndVarRow(g) == CHOOSE i \in Rows : g[i].role = "Ind. Variable"

\* update_ind_var wrote nothing: expt.gas_comp is what update_expt passed to
\* it (the attribute with the static composition in its row 0)
NothingStored ==
    gas_comp' = [gas_comp EXCEPT ![1] = [i \in Rows |-> designComp'[i] * 100]]

\* C31: with an Ind. Variable row whose stop <= start or whose step <= 0 the
\* planner rejects the grid and stores no matrix; a matrix is built only
\* when stop > start and step > 0
C31_InvalidRangeRejected ==
    [][(Handled /\ RolesPass(grid')) =>
          LET iv == grid'[IndVarRow(grid')]
          IN  /\ (iv.stop <= iv.start \/ iv.step <= 0) =>
                    (planner' = "bad range" /\ NothingStored)
              /\ planner' = "stored" => (iv.stop > iv.start /\ iv.step > 0)]_vars

\* C32: the column of the Ind. Variable row of a stored matrix holds start,
\* start + step, ... for every term below stop + step (in hundredths), and
\* the matrix has one row per term
C32_SweepValues ==
    planner = "stored" =>
        LET i     == IndVarRow(grid)
            terms == arange(grid[i].start, grid[i].stop + grid[i].step, grid[i].step)
        IN  /\ Len(gas_comp) = Len(terms)
            /\ \A k \in 1..Len(terms) : gas_comp[k][i] = terms[k]

\* C33: in a stored matrix, at every sweep step, a Multiple row is its
\* multiplier times the Ind. Variable row, a Fixed row is its constant, the
\* Fill row is 1 less the other rows; column i belongs to grid row i and
\* the steps follow the sweep
C33_MatrixEntries ==
    planner = "stored" =>
        LET iv == IndVarRow(grid)
        IN  \A k \in 1..Len(gas_comp) :
               /\ k > 1 => gas_comp[k][iv] = gas_comp[k - 1][iv] + grid[iv].step
               /\ \A i \in Rows :
                     CASE grid[i].role = "Multiple" ->
                              gas_comp[k][i] = grid[i].mult * gas_comp[k][iv]
                       [] grid[i].role = "Fixed" -> gas_comp[k][i] = grid[i].start
                       [] grid[i].role = "Fill" ->
                              gas_comp[k][i] =
                                  100 - SumOver(gas_comp[k], Rows \ {i})
                       [] OTHER -> gas_comp[k][i] = grid[iv].start + (k - 1) * grid[iv].step

C33_Witness ==
    /\ edits > 0
    /\ planner = "stored"
    /\ Len(gas_comp) >= 2
    /\ \E i, j, f \in Rows :
          /\ grid[i].role = "Multiple" /\ grid[i].mult = 2
          /\ grid[j].role = "Multiple" /\ j # i
          /\ grid[f].role = "Fill" /\ gas_comp[2][f] < gas_comp[1][f]

\* C34: a grid whose number of Fill rows is not 1, or with more than one
\* Ind. Variable row, is rejected and no matrix is stored for it
C34_BadRolesRejected ==
    [][(/\ Handled
        /\ \/ Cardinality(RowsOfRole(grid', "Fill")) # 1
           \/ Cardinality(RowsOfRole(grid', "Ind. Variable")) > 1) =>
          /\ planner' \in {"not ready", "bad roles"}
          /\ NothingStored]_vars

C34_Witness ==
    /\ edits > 0
    /\ planner = "bad roles"
    /\ Cardinality(RowsOfRole(grid, "Fill")) = 2
    /\ Cardinality(RowsOfRole(grid, "Ind. Variable")) = 1

\* C35: with a row whose role is '-' the planner returns at once: the
\* attribute of the experiment and the plot are left as they were
C35_UnsetRoleNotReady ==
    [][(Handled /\ RowsOfRole(grid', "-") # {}) =>
          /\ planner' = "not ready"
          /\ NothingStored
          /\ plot' = plot]_vars

C35_Witness ==
    /\ edits > 0
    /\ planner = "not ready"
    /\ Len(gas_comp) >= 2
    /\ Cardinality(RowsOfRole(grid, "Fill")) = 1
    /\ Cardinality(RowsOfRole(grid, "Ind. Variable")) = 1

(***************************************************************************)
(* Properties of check_comp_total.                                         *)
(***************************************************************************)
\* C9: for every list, check_comp_total gives each element divided by 100
\* when the list sums to exactly 100, the list unchanged when it sums to 0
\* or to 1, and raises otherwise
C9_CheckCompTotalCases ==
    cc_done =>
        IF PySum(cc_in) = FHundred
        THEN /\ ~cc_out.raised
             /\ cc_out.list = [i \in 1..4 |-> FDiv100(cc_in[i])]
        ELSE IF PySum(cc_in) \in {FOne, FxZero}
        THEN ~cc_out.raised /\ cc_out.list = cc_in
        ELSE cc_out.raised

(***************************************************************************)
(* Properties of Gas_System.                                               *)
(***************************************************************************)
\* thread t has passed a wait on is_busy and has not yet reset the flag
Inside(t) == stack[t] # <<>> /\ Top(t).at \in {"acquire", "body", "release"}

\* thread t set is_busy and has not yet reset it
Holds(t) == stack[t] # <<>> /\ Top(t).at \in {"body", "release"}

\* this step issues a command of thread t to a channel
Issues(t) == issued'[t] = issued[t] + 1

\* this step is thread t calling method m
Calls(t, m) == ncall'[t] = ncall[t] + 1 /\ req'[t].m = m

\* C1: at most one caller at a time has passed the wait on is_busy without
\* having reset the flag
C1_MutualExclusion ==
    \A t, u \in Threads : (Inside(t) /\ Inside(u)) => t = u

\* C2: from the first flow write of a set_flows call to the end of its
\* set_gasE, no other caller issues a command; already violated by a caller
\* that passed the wait on is_busy inside that window
C2_SetFlowsAtomic ==
    [][\A t, u \in Threads :
          (t # u /\ InSetFlowsWindow(t) /\ stack[u] # <<>> /\ Top(u).overtook)
              => ~Issues(u)]_vars

\* C3: when no Gas_System call is in progress, whether the last one
\* returned or raised, is_busy is False
C3_FlagClearAfterEveryExit ==
    (\A t \in Threads : stack[t] = <<>>) => ~is_busy

\* C4: every command to a channel is issued by a call that has set is_busy
\* and not yet reset it
C4_CommandsOnlyUnderFlag ==
    [][\A t \in Threads : Issues(t) => (Holds(t) /\ is_busy)]_vars

\* C5: a caller that started waiting after another has issued no command
\* while the earlier caller still waits with none of its commands issued
C5_SubmissionOrder ==
    \A x, y \in Threads :
        (x \in ahead[y] /\ issued[y] > 0) =>
            ~(issued[x] = 0 /\ stack[x] # <<>> /\ Top(x).at \in {"wait", "acquire"})

Returned(t, m) == stack[t] = <<>> /\ outcome[t] = "returned" /\ req[t].m = m

\* the flow setpoints of channels A-D
Setpoints4 == [i \in 1..4 |-> mfc[Chan[i]].setpoint]

\* two floats differ by less than 1e-9
Near(x, y) ==
    /\ x[1] - y[1] \in {-1, 0, 1}
    /\ (x[1] - y[1]) * LimbBase + x[2] - y[2] \in -64..64

\* C11: after set_flows(comp_list, tot_flow) has returned, each channel A-D
\* has the setpoint float(fraction * tot_flow), the fraction being the entry
\* of the list check_comp_total gave, and the four setpoints sum to tot_flow
\* (to float rounding, within 1e-9) when the composition sums to 1 or 100
C11_SetpointsAreFractionTimesFlow ==
    \A t \in Threads :
        Returned(t, "set_flows") =>
            LET c == check_comp_total(req[t].comp).list
            IN  /\ \A i \in 1..4 :
                      mfc[Chan[i]].setpoint = FMulInt(c[i], req[t].flow)
                /\ PySum(c) = FOne =>
                      Near(PySum(Setpoints4), FromInt(req[t].flow))

C11_Witness ==
    \E t \in Threads :
        /\ Returned(t, "set_flows")
        /\ PySum(req[t].comp) = FHundred
        /\ PySum(Setpoints4) # FromInt(req[t].flow)
        /\ mfc["C"].setpoint # FxZero


\* the gases channels A-D hold
Gases4 == [i \in 1..4 |-> mfc[Chan[i]].gas]

\* per species the float sum, in channel order, of the percents of the
\* channels that carry it, less the species whose sum is zero
SummedDict(gas_list, comp_list) ==
    LET pct(g, i) == IF gas_list[i] = g THEN FMulInt(comp_list[i], 100) ELSE FxZero
        total(g)  == FAdd(FAdd(FAdd(pct(g, 1), pct(g, 2)), pct(g, 3)), pct(g, 4))
        keys      == {gas_list[i] : i \in 1..4}
    IN  [g \in {k \in keys : total(k) # FxZero} |-> total(g)]

\* C12: after set_gasE has returned, a mixture of more than one species is
\* in slot 236 of channel E with, per species, the sum of the percents of
\* all channels that carry it
C12_DuplicateSpeciesSummed ==
    \A t \in Threads :
        Returned(t, "set_gasE") =>
            LET d == SummedDict(Gases4, check_comp_total(req[t].comp).list)
            IN  Cardinality(DOMAIN d) > 1 =>
                    /\ mfc["E"].mix[OutputMix] = d
                    /\ mfc["E"].gas = "mix 236"


\* C13: when set_gasE is over, if exactly one species has a non-zero
\* fraction, that species is channel E's gas and no mix was written (four
\* reads and the one set_gas); if more than one has, a mix is in slot 236
\* and slot 236 is selected (four reads, create_mix and set_gas)
C13_SingleSpeciesSelectedDirectly ==
    \A t \in Threads :
        (/\ stack[t] = <<>> /\ req[t].m = "set_gasE"
         /\ outcome[t] \in {"returned", "IndexError"}) =>
            LET S == DOMAIN SummedDict(Gases4, check_comp_total(req[t].comp).list)
            IN  /\ Cardinality(S) = 1 =>
                      /\ outcome[t] = "returned"
                      /\ mfc["E"].gas \in S
                      /\ issued[t] = 5
                /\ Cardinality(S) > 1 =>
                      /\ outcome[t] = "returned"
                      /\ mfc["E"].gas = "mix 236"
                      /\ Cardinality(DOMAIN mfc["E"].mix[OutputMix]) > 1
                      /\ issued[t] = 6


\* the species that flow: the gases of the channels A-D with a non-zero
\* setpoint
Flowing == {mfc[Chan[i]].gas : i \in {j \in 1..4 : mfc[Chan[j]].setpoint # FxZero}}

\* channel E names the species that flow: the one species itself, or the
\* mix of slot 236 made of exactly these species
EDescribesFlows ==
    /\ Cardinality(Flowing) = 1 => mfc["E"].gas \in Flowing
    /\ Cardinality(Flowing) > 1 =>
          mfc["E"].gas = "mix 236" /\ DOMAIN mfc["E"].mix[OutputMix] = Flowing

\* C14: after set_gasses or shut_down has returned, channel E's gas or mix
\* is the one of the gases and flows channels A-D now have
C14_EFollowsChannels ==
    \A t \in Threads :
        (Returned(t, "set_gasses") \/ Returned(t, "shut_down")) => EDescribesFlows


\* C15: after shut_down has returned, each channel A-D that holds Ar or N2
\* has the setpoint 1.0 and every other channel A-D the setpoint 0.0
C15_ShutDownSetpoints ==
    \A t \in Threads :
        Returned(t, "shut_down") =>
            \A i \in 1..4 :
                mfc[Chan[i]].setpoint =
                    IF mfc[Chan[i]].gas \in Inert THEN FOne ELSE FxZero

C15_Witness ==
    \E t \in Threads :
        /\ Returned(t, "shut_down")
        /\ ncall[t] = 2
        /\ mfc["E"].gas = "mix 236"
        /\ \E i, j \in 1..4 :
              mfc[Chan[i]].gas \in Inert /\ mfc[Chan[j]].gas \notin Inert


\* C16: a shut_down run right after a shut_down returned leaves the gases,
\* the setpoints and is_busy as the first one left them
C16_ShutDownIdempotent ==
    \A t \in Threads :
        (Returned(t, "shut_down") /\ req[t].before # <<>>) =>
            /\ mfc = req[t].before[1].mfc
            /\ is_busy = req[t].before[1].is_busy

C16_Witness ==
    \E t \in Threads :
        /\ Returned(t, "shut_down") /\ req[t].before # <<>>
        /\ ~is_busy
        /\ \E i, j \in 1..4 : mfc[Chan[i]].setpoint = FOne /\ mfc[Chan[j]].setpoint = FxZero


\* disconnect has closed every channel handle
Released == \A ch \in {"A", "B", "C", "D", "E"} : mfc[ch].closed

\* C17: once disconnect has closed the channel handles, no call issues a
\* command to a channel
C17_UnusableAfterDisconnect ==
    [][\A t \in Threads : Released => ~Issues(t)]_vars


\* the table the mixture is taken from: per base name the ppm of its first
\* row, and the fill gas with what is left of 100 percent (units of 1/10000
\* percent)
FirstRows(calDF) ==
    {i \in 1..Len(calDF) : \A j \in 1..(i - 1) : calDF[j].chem # calDF[i].chem}

CalTable(calDF, fill_gas) ==
    LET total == SumOver([i \in 1..Len(calDF) |-> calDF[i].ppm], FirstRows(calDF))
    IN  [c \in {calDF[i].chem : i \in 1..Len(calDF)} \cup {fill_gas} |->
            IF c = fill_gas THEN 1000000 - total
            ELSE calDF[CHOOSE i \in FirstRows(calDF) : calDF[i].chem = c].ppm]

\* C18: after set_calibration_gas(mfc, calDF) has returned, slot 237 of that
\* channel holds at most 5 species, all factory gasses, in descending order
\* of percent, each with its percent of the table, and no factory gas of
\* the table left out has more than one that is in; slot 236 of the
\* channel is not written
C18_CalibrationMix ==
    \A t \in Threads :
        Returned(t, "set_calibration_gas") =>
            LET ch    == req[t].gl[1]
                mix   == mfc[ch].mix[CalMix]
                table == CalTable(req[t].comp, "Ar")
                in    == {mix[k].chem : k \in 1..Len(mix)}
                known == DOMAIN table \cap factory_gasses
            IN  /\ mfc[ch].mix[OutputMix] = NoMix
                /\ Len(mix) <= 5
                /\ Cardinality(in) = Len(mix)
                /\ in \subseteq known
                /\ \A k \in 1..Len(mix) : mix[k].pct = table[mix[k].chem]
                /\ \A k \in 1..(Len(mix) - 1) : mix[k].pct >= mix[k + 1].pct
                /\ Len(mix) = 5 \/ in = known
                /\ \A c \in known \ in : \A d \in in : table[c] <= table[d]

C18_Witness ==
    \E t \in Threads :
        /\ Returned(t, "set_calibration_gas")
        /\ Len(mfc[req[t].gl[1]].mix[CalMix]) = 5
        /\ Cardinality(DOMAIN CalTable(req[t].comp, "Ar") \cap factory_gasses) > 5
        /\ mfc[req[t].gl[1]].mix[CalMix][5].chem = "CO"

\* C39: the percentages of the mixture that set_calibration_gas wrote to
\* slot 237 sum to 100 (1000000 in units of 1/10000 percent)
C39_CalibrationMixSumsTo100 ==
    \A t \in Threads :
        Returned(t, "set_calibration_gas") =>
            SumPct(mfc[req[t].gl[1]].mix[CalMix]) = 1000000


(***************************************************************************)
(* Properties of the study runner.                                         *)
(***************************************************************************)
StudyPc == worker["run_study_thread"].pc

\* start_study calls run_experiment on an experiment of the list
CallsRunExperiment == StudyPc = "loop" /\ StudyPc' = "push"

\* a step of run_experiment sends its setpoints
SendsSetpoints == StudyPc = "push" /\ StudyPc' = "acquire"

\* C19: once an emergency stop has been issued while a study runs, the study
\* calls run_experiment on no further experiment and no step sends setpoints
\* (the step in flight at the stop only completes its acquisition)
C19_NoStepAfterEmergencyStop ==
    [][estop.stopped => ~CallsRunExperiment /\ ~SendsSetpoints]_vars

\* C20: when the study thread has ended after an emergency stop issued while
\* it ran, MainWindow.shut_down has been invoked exactly once since that stop
C20_ShutDownOnceAfterEmergencyStop ==
    (estop.stopped /\ ~Running("run_study_thread")) => estop.shut_downs = 1


\* the steps of all experiments of the list
RECURSIVE TotalSteps(_)
TotalSteps(list) == IF list = <<>> THEN 0 ELSE Len(Head(list)) + TotalSteps(Tail(list))

\* C23: when an equipment exception raised in an experiment has ended the
\* study, MainWindow.shut_down has been invoked by the study thread and no
\* step was run after the exception
C23_ShutDownAfterEquipmentException ==
    run.ended = "equipment" => run.shut_downs = 1

\* start_study invokes self.shut_down()
StudyShutsDown == StudyPc = "shut_down" /\ StudyPc' = "untoggle"

\* C24: start_study invokes shut_down only when every step of every
\* experiment of the list has run, the invocation puts every connected
\* device in its shutdown state, and a study that returns has invoked it
\* exactly once
C24_ShutDownOnceAfterLastExperiment ==
    [][/\ StudyShutsDown =>
            /\ run.steps = TotalSteps(listWidget)
            /\ worker["run_study_thread"].expt = Len(listWidget) + 1
            /\ run.shut_downs = 0
            /\ \A d \in Connected : eqpt'[d] = "shut_down"
       /\ run'.ended = "returned" => run'.shut_downs = 1]_vars

C24_Witness ==
    /\ run.ended = "returned" /\ run.shut_downs = 1
    /\ Len(listWidget) = 2 /\ run.steps = 3
    /\ \A d \in Devices : eqpt[d] = "shut_down"

\* C25: at most one runnable of the pool executes at any time
C25_OneWorkerAtATime == Cardinality(threadpool.active) <= 1

\* C27: the study of one temperature sweep from 300 to 340 in steps of 10,
\* with only the heater connected at startup, ends with 5 steps run, the
\* heater set to 300, 310, 320, 330, 340 in this order, and one shutdown
OnlyHeater == [gc |-> "raises", gas |-> "raises", heater |-> "ok", laser |-> "raises"]

C27_HeaterOnlySweep ==
    (/\ gui.oc = OnlyHeater
     /\ listWidget = <<TempSweep(300, 340, 10)>>
     /\ run.ended # "no")
        => /\ run.steps = 5
           /\ run.heater = <<300, 310, 320, 330, 340>>
           /\ run.shut_downs = 1

\* init_equipment is past the try block of device d
Attempted(d) ==
    gui.pc \notin CASE d = "gc"     -> {"init_gc"}
                    [] d = "gas"    -> {"init_gc", "init_gas"}
                    [] d = "heater" -> {"init_gc", "init_gas", "init_heater"}
                    [] OTHER        -> {"init_gc", "init_gas", "init_heater", "init_laser"}

\* C28: init_equipment is never left by an exception; past the try block of
\* a device, a device that failed to connect is marked disconnected and a
\* device that connected is marked connected and bound, whatever the
\* devices before it did
C28_ConnectFailuresCaught ==
    /\ gui.pc # "failed"
    /\ \A d \in Equipment :
          Attempted(d) =>
              /\ gui.oc[d] = "raises" => ~status[d]
              /\ gui.oc[d] = "ok" => status[d] /\ d \in bound

C28_Witness ==
    /\ GuiIdle
    /\ gui.oc.gc = "raises" /\ gui.oc.gas = "raises" /\ gui.oc.heater = "ok"
    /\ ~status["gc"] /\ ~status["gas"] /\ status["heater"]

\* manual_ctrl_eqpt sends its setpoints
ManualSets ==
    worker["manual_ctrl_thread"].pc = "set" /\ worker'["manual_ctrl_thread"].pc = "untoggle"

WorkerEnds(r) == r \in threadpool.active /\ r \notin threadpool'.active

\* C38: when the worker of start_study or of manual_ctrl_eqpt ends, by a
\* return or by an exception, the GUI controls it disabled are enabled
C38_ControlsEnabledWhenWorkerEnds ==
    [][\A r \in Runnables : WorkerEnds(r) => ~controls_disabled']_vars


(***************************************************************************)
(* Properties of the emergency stop and of the GUI thread.                 *)
(***************************************************************************)
\* this step is the return of emergency_stop
StopReturns == gui.pc = "emergency_stop" /\ gui'.pc = "idle"

\* C21: when emergency_stop returns, Gas_System.is_busy is False, whatever
\* the worker was doing in Gas_System when the stop was issued
C21_FlagClearAfterEmergencyStop == [][StopReturns => ~is_busy']_vars

\* the channels A-D are in the shutdown flow state: 1 sccm where the gas is
\* Ar or N2, 0 elsewhere
ShutDownFlows ==
    \A i \in 1..4 :
        mfc[Chan[i]].setpoint = IF mfc[Chan[i]].gas \in Inert THEN FOne ELSE FxZero

\* C22: under fair scheduling an emergency stop is followed by the shutdown
\* flow state of the gas channels; stated for the stop that finds the worker
\* failed inside a Gas_System operation
C22_StopReachesShutDownFlows ==
    (gui.pc = "emergency_stop" /\ CallRaised(PoolThread)) ~> ShutDownFlows

\* C37: while disconnect closes the channel handles, the setpoints of
\* channels A-D are the shutdown values: no flow write of another caller
\* came after the shut_down that disconnect ran first
C37_ClosedAtShutDownFlows ==
    \A t \in Threads : In(t, "disconnect", "body") => ShutDownFlows

\* C36: under fair scheduling every call the GUI thread makes to Gas_System
\* (read_flows of the status poll, shut_down of the emergency stop), whose
\* own commands all return, returns in the end, whatever the calls before
\* it did, the calls that ended in an exception included
C36_CallEventuallyReturns ==
    (stack[GuiThread] # <<>>) ~> CallReturned(GuiThread)

\* C26: the GUI thread is never held at a wait on is_busy, neither in the
\* status poll nor in the emergency stop
C26_GuiThreadNeverWaitsOnBusy ==
    ~(stack[GuiThread] # <<>> /\ Top(GuiThread).at = "wait" /\ is_busy)


(***************************************************************************)
(* Properties of analyze_cal_data.                                         *)
(***************************************************************************)
\* the chemicals whose turn of the loop is over
Fitted == {c \in calchemIDs : c < chem_num}

\* C30: when np.polyfit raises LinAlgError for a chemical, analyze_cal_data
\* goes on, writes no slope, intercept or error to the row of that chemical,
\* and the row of every other chemical holds that chemical's own fit
C30_BadFitLeavesOthersAlone ==
    /\ analysis # "UnboundLocalError"
    /\ \A c \in Fitted :
          new_calibration[c] =
              IF polyfit[c] = "LinAlgError" THEN FromCalDF ELSE FitOf(c)


(***************************************************************************)
(* Properties of display_expt.                                             *)
(***************************************************************************)
\* display_expt is between its first line and its return
Displaying == shown.pc \notin {"idle", "raised"}

\* C40: no step of display_expt changes a parameter of any experiment: the
\* signals of the widgets it sets find update_flag False, and update_flag
\* is True when display_expt has returned
C40_DisplayChangesNoExperiment ==
    [][(Displaying \/ Displaying') =>
          /\ expts' = expts
          /\ Displaying' => ~update_flag'
          /\ (DisplayAt("finish") /\ ~Displaying') => update_flag']_vars

\* display_expt has returned after its widgets emitted signals, and the
\* widgets show an experiment other than the blank one
C40_Witness ==
    /\ DisplayAt("idle")
    /\ shown.fired >= 6
    /\ update_flag
    /\ currentItem # 0
    /\ form.setTemp = expts[currentItem].temp[1]
    /\ \E i \in Items : expts[i].expt_type # expts[currentItem].expt_type

=============================================================================
